---- MODULE Spec2Model ----
(***************************************************************************)
(* nanobot: the aggregating MCP server.                                    *)
(*                                                                         *)
(* Part 1 models pkg/server (Server.onMessage and its handlers) on top of  *)
(* pkg/sessiondata (Data.Sync, Data.Refresh, Data.ToolMapping, resource    *)
(* subscriptions).  One client session is modelled; its inbound messages   *)
(* are handled by concurrent tasks.  A task runs Data.Sync as one step and *)
(* then the handler of the method, which is cut into steps at the places   *)
(* where the handler waits for an upstream (building a mapping, calling a  *)
(* tool, subscribing): between two steps of one task the other task may    *)
(* run.                                                                    *)
(***************************************************************************)
EXTENDS Integers, Sequences, FiniteSets, TLC

VARIABLES
    attrs,      \* the session's attribute map (mcp.Session Get/Set/Delete)
    env,        \* the session's environment map (mcp.Session.GetEnvMap)
    filters,    \* number of message filters attached to the session
    live,       \* upstream servers with an open (not closed) client object
    dyn,        \* whether upstream s1 currently offers its extra tool "x"
    force,      \* Server.forceFetchToolList
    pc,         \* per task: where its handler stands
    msg,        \* per task: the message being handled
    loc,        \* per task: the handler's local variables
    reply,      \* per task: the reply sent for the message
    call,       \* per task: the upstream request the handler made
    nmsgs,      \* number of messages received so far
    notif,      \* the resources/updated notification delivered to the client
    run,        \* the agent's run struct (Response, ToolOutputs, Done)
    ag,         \* the agent loop: its position, the request context, its output
    tr,         \* truncateToolResult: its input, its result and the written files
    el,         \* elicit.Answer: the request, the form's state and the result
    fn,         \* a pure function under check: its input and its result
    col,        \* the audit log Collector, its flusher, its callers and the sink
    cp,         \* Agents.compact: the conversation and the populated request
    ms          \* the meta server: its tools and the last reply to each session

\* The variables of the server and of its session.
svars == <<attrs, env, filters, live, dyn, force, pc, msg, loc, reply, call, nmsgs, notif>>

vars == <<attrs, env, filters, live, dyn, force, pc, msg, loc, reply, call, nmsgs, notif,
          run, ag, tr, el, fn, col, cp, ms>>

\* The variables of the pure functions, of the collector, of compaction and
\* of the meta server.
ovars == <<fn, col, cp, ms>>

(***************************************************************************)
(* Bounds and universes.                                                   *)
(***************************************************************************)
MaxMsgs == 3

Tasks == {"t1", "t2"}
Servers == {"s1", "s2"}
URIs == {"u1", "u2"}
ToolNames == {"x", "zz"}
BearerKey == "http:bearer-token"

\* types.EnvDef: the fields getEnvVal and reconcileEnv read.
EnvDef(optional, useBearerToken, default) ==
    [Optional |-> optional, UseBearerToken |-> useBearerToken, Default |-> default]

NoEnvDefs == [k \in {} |-> EnvDef(FALSE, FALSE, "")]

\* types.Publish
Publish(name, instructions, introduction, mcpServers, entrypoint) ==
    [Name |-> name, Instructions |-> instructions, Introduction |-> introduction,
     MCPServers |-> mcpServers, Entrypoint |-> entrypoint,
     Tools |-> << >>, Prompts |-> << >>, Resources |-> << >>,
     ResourceTemplates |-> << >>]

\* types.Config: the configurations the config factory can return.
cfgProxy ==
    [id |-> "proxy", Env |-> NoEnvDefs, Agents |-> {},
     Publish |-> Publish("nb", "", FALSE, <<"s1">>, << >>)]

cfgInstr ==
    [id |-> "instr", Env |-> NoEnvDefs, Agents |-> {},
     Publish |-> Publish("nb", "be nice", FALSE, <<"s2">>, << >>)]

cfgEnv ==
    [id |-> "env",
     Env |-> [k \in {"K1", "K2", "K3"} |->
                 CASE k = "K1" -> EnvDef(FALSE, FALSE, "")
                   [] k = "K2" -> EnvDef(FALSE, TRUE, "")
                   [] k = "K3" -> EnvDef(TRUE, FALSE, "d")],
     Agents |-> {},
     Publish |-> Publish("nb", "", TRUE, <<"s1", "s2">>, << >>)]

Configs == {cfgProxy, cfgInstr, cfgEnv}

\* The environment maps a session can start with.
InitEnvs ==
    { [k \in {} |-> ""],
      [k \in {"K1"} |-> "v"],
      [k \in {"K1"} |-> ""],
      [k \in {"K1", "K2"} |-> "v"],
      [k \in {BearerKey} |-> "tok"],
      [k \in {"K1", BearerKey} |-> IF k = "K1" THEN "v" ELSE "tok"],
      [k \in {"K1", BearerKey} |-> IF k = "K1" THEN "v" ELSE ""] }

(***************************************************************************)
(* mcp.Session attribute map.                                              *)
(***************************************************************************)
Has(a, k) == k \in DOMAIN a
Set(a, k, v) == [x \in DOMAIN a \cup {k} |-> IF x = k THEN v ELSE a[x]]
Delete(a, k) == [x \in DOMAIN a \ {k} |-> a[x]]
DeleteAll(a, ks) == [x \in DOMAIN a \ ks |-> a[x]]

toolMappingKey == "toolMapping"
promptMappingKey == "promptMapping"
resourceMappingKey == "resourceMapping"
resourceTemplateMappingKey == "resourceTemplateMapping"
resourceTemplateMappingCacheKey == "resourceTemplateMappingCache"
agentsSessionKey == "agents"
currentAgentTargetSessionKey == "currentAgentTargetMapping"
ConfigSessionKey == "config"
ConfigHashSessionKey == "configHash"
CurrentAgentSessionKey == "currentAgent"
DefaultAgentSessionKey == "defaultAgent"
ResourceSubscriptionsSessionKey == "resourceSubscriptions"
SubscriptionsInitializedKey == "_subscriptions_initialized"

\* The runtime's per-session client cache: attribute clients/<serverKey>.
ClientKey(s) == "clients/" \o s
ClientKeys == {ClientKey(s) : s \in Servers}
CachedClients(a) == {s \in Servers : Has(a, ClientKey(s))}

(***************************************************************************)
(* Upstream servers: what each answers to initialize, tools/list,          *)
(* resources/list and resources/templates/list.                            *)
(***************************************************************************)
InitializeResult(name, subscribe, prompts, logging, experimental) ==
    [ServerInfo |-> [Name |-> name],
     Capabilities |-> [ResourcesSubscribe |-> subscribe, Prompts |-> prompts,
                       Logging |-> logging, Tools |-> TRUE,
                       Experimental |-> experimental]]

NoInitializeResult == InitializeResult("", FALSE, FALSE, FALSE, {})

\* s1 advertises resources.subscribe, s2 does not.
UpstreamInit(s) == InitializeResult(s, s = "s1", FALSE, FALSE, {})

UpstreamTools(s, d) ==
    IF s = "s1" THEN (IF d THEN {"a", "x"} ELSE {"a"}) ELSE {"b"}

(***************************************************************************)
(* pkg/server: environment reconciliation.                                 *)
(***************************************************************************)
\* expr.Lookup on the env map
Lookup(envMap, envKey) == envKey \in DOMAIN envMap

\* A faulty getEnvVal: the bearer token is never consulted.
getEnvValMapOnly(envMap, envKey, envDef) ==
    IF Lookup(envMap, envKey) THEN envMap[envKey]
    ELSE IF ~envDef.Optional THEN ""
    ELSE envDef.Default

\* getEnvVal: the value in the map, else the bearer token when the variable
\* takes it, else nothing (required) or the default (optional).
getEnvVal(envMap, envKey, envDef) ==
    IF Lookup(envMap, envKey) THEN envMap[envKey]
    ELSE IF /\ envDef.UseBearerToken
            /\ BearerKey \in DOMAIN envMap
            /\ envMap[BearerKey] # ""
         THEN envMap[BearerKey]
    ELSE IF ~envDef.Optional THEN ""
    ELSE envDef.Default

\* reconcileEnv: the keys it accumulates in `missing`
reconcileMissing(envMap, c) ==
    {k \in DOMAIN c.Env :
        getEnvVal(envMap, k, c.Env[k]) = "" /\ ~c.Env[k].Optional}

\* A faulty reconcileEnv: a missing variable is written too, with the empty
\* value (the loop lacks its continue).
reconcileEnvMapAll(envMap, c) ==
    [k \in DOMAIN envMap \cup DOMAIN c.Env |->
        IF k \in DOMAIN c.Env THEN getEnvVal(envMap, k, c.Env[k]) ELSE envMap[k]]

\* reconcileEnv: the env map after its loop (envMap[envKey] = envVal for
\* every declared key that is not missing)
reconcileEnvMap(envMap, c) ==
    LET written == DOMAIN c.Env \ reconcileMissing(envMap, c)
    IN  [k \in DOMAIN envMap \cup written |->
            IF k \in written THEN getEnvVal(envMap, k, c.Env[k]) ELSE envMap[k]]

InvalidParamsCode == -32602
MethodNotFoundCode == -32601

(***************************************************************************)
(* types.Publish / types.CurrentAgent                                      *)
(***************************************************************************)
\* A faulty IsSingleServerProxy: the test on the instructions is inverted.
IsSingleServerProxyInstructed(p) ==
    /\ Len(p.MCPServers) = 1
    /\ Len(p.Entrypoint) = 0
    /\ Len(p.Tools) = 0
    /\ Len(p.Resources) = 0
    /\ Len(p.Prompts) = 0
    /\ Len(p.ResourceTemplates) = 0
    /\ p.Instructions # ""

IsSingleServerProxy(p) ==
    /\ Len(p.MCPServers) = 1
    /\ Len(p.Entrypoint) = 0
    /\ Len(p.Tools) = 0
    /\ Len(p.Resources) = 0
    /\ Len(p.Prompts) = 0
    /\ Len(p.ResourceTemplates) = 0
    /\ p.Instructions = ""

CurrentAgent(a) ==
    IF Has(a, CurrentAgentSessionKey) THEN a[CurrentAgentSessionKey]
    ELSE IF Has(a, DefaultAgentSessionKey) THEN a[DefaultAgentSessionKey]
    ELSE IF Has(a, ConfigSessionKey) /\ Len(a[ConfigSessionKey].Publish.Entrypoint) > 0
         THEN a[ConfigSessionKey].Publish.Entrypoint[1]
    ELSE ""

(***************************************************************************)
(* pkg/sessiondata: Sync and Refresh.                                      *)
(***************************************************************************)
\* sha256 over the JSON of {config, env}: injective on the modelled values.
Hash(c, e) == [config |-> c, env |-> e]

RefreshedKeys ==
    {toolMappingKey, CurrentAgentSessionKey, promptMappingKey, resourceMappingKey,
     resourceTemplateMappingKey, agentsSessionKey, currentAgentTargetSessionKey}

\* Data.Refresh: the attribute map it leaves.
Refresh(a, close) ==
    DeleteAll(IF close THEN DeleteAll(a, ClientKeys) ELSE a, RefreshedKeys)

\* Data.Refresh: the open clients it leaves (closer.Close(false) on every
\* clients/ attribute when close is set).
RefreshLive(a, l, close) == IF close THEN l \ CachedClients(a) ELSE l

\* initSubscriptions: attaches the filter once per session.
initSubscriptions(a) ==
    IF Has(a, SubscriptionsInitializedKey) THEN a
    ELSE Set(a, SubscriptionsInitializedKey, TRUE)

initSubscriptionsFilters(a, n) ==
    IF Has(a, SubscriptionsInitializedKey) THEN n ELSE n + 1

HashChanged(a, c, e) ==
    ~Has(a, ConfigHashSessionKey) \/ a[ConfigHashSessionKey] # Hash(c, e)

\* Data.Sync with the config factory returning c: the attribute map it leaves.
SyncAttrs(a, e, c) ==
    LET a1 == initSubscriptions(a)
        a2 == Set(a1, ConfigSessionKey, c)
        a3 == IF HashChanged(a2, c, e) THEN Refresh(a2, TRUE) ELSE a2
    IN  Set(a3, ConfigHashSessionKey, Hash(c, e))

SyncLive(a, l, e, c) ==
    IF HashChanged(a, c, e) THEN RefreshLive(a, l, TRUE) ELSE l

(***************************************************************************)
(* Messages, replies and the per-task records.                             *)
(***************************************************************************)
Registered ==
    {"initialize", "notifications/initialized", "ping", "logging/setLevel",
     "tools/list", "tools/call", "prompts/list", "prompts/get",
     "resources/templates/list", "resources/list", "resources/read",
     "resources/subscribe", "resources/unsubscribe", "notifications/cancelled"}

\* id is the JSON-RPC request id.
Message(method, arg, bad) == [id |-> 0, method |-> method, arg |-> arg, bad |-> bad]
NoMessage == Message("", "", FALSE)

\* The inbound requests the client sends.  bad marks params that do not
\* unmarshal into the handler's payload type.
InitMessages ==
    {Message(m, "", FALSE) : m \in {"initialize", "ping", "tools/list", "bogus/method"}}

ToolMessages ==
    {Message("tools/list", "", FALSE), Message("tools/call", "x", TRUE)}
    \cup {Message("tools/call", n, FALSE) : n \in ToolNames}

SubscriptionMessages ==
    {Message(m, u, FALSE) : m \in {"resources/subscribe", "resources/unsubscribe"},
                           u \in URIs}

Reply(kind, code, err, tools, missing, init) ==
    [kind |-> kind, code |-> code, err |-> err, tools |-> tools,
     missing |-> missing, init |-> init]
NoReply == Reply("none", 0, "", {}, {}, NoInitializeResult)
Result == Reply("result", 0, "", {}, {}, NoInitializeResult)
ErrorReply(code, err) == Reply("error", code, err, {}, {}, NoInitializeResult)

UpstreamCall(op, server, target, sent) ==
    [op |-> op, server |-> server, target |-> target, sent |-> sent]
NoCall == UpstreamCall("none", "", "", FALSE)

\* A notifications/resources/updated an upstream sent: what its params carry
\* (a uri, or params that do not parse) and whether the client got it.
Notification(p, delivered) == [p |-> p, delivered |-> delivered]
NoNotification == Notification("none", FALSE)

Locals(cfg, lookups, refreshes, subs, server, target) ==
    [cfg |-> cfg, lookups |-> lookups, refreshes |-> refreshes, subs |-> subs,
     server |-> server, target |-> target]
NoLocals == Locals(cfgProxy, 0, 0, {}, "", "")

\* A new session: nothing stored, no filter, no upstream client.  E are the
\* environment maps it may carry, F the values of Options.ForceFetchToolList.
InitSession(E, F) ==
    /\ attrs = [k \in {} |-> TRUE]
    /\ env \in E
    /\ filters = 0
    /\ live = {}
    /\ dyn = FALSE
    /\ force \in F
    /\ pc = [t \in Tasks |-> "idle"]
    /\ msg = [t \in Tasks |-> NoMessage]
    /\ loc = [t \in Tasks |-> NoLocals]
    /\ reply = [t \in Tasks |-> NoReply]
    /\ call = [t \in Tasks |-> NoCall]
    /\ nmsgs = 0
    /\ notif = NoNotification

\* msg.Reply / msg.SendError: the handler is over.
Finish(t, r) ==
    /\ reply' = [reply EXCEPT ![t] = r]
    /\ pc' = [pc EXCEPT ![t] = "done"]

(***************************************************************************)
(* Server.OnMessage: the session runs the handler of an inbound message on *)
(* a task of its own.                                                      *)
(***************************************************************************)
Receive(t, M) ==
    /\ pc[t] = "idle"
    /\ nmsgs < MaxMsgs
    /\ \E m \in M : msg' = [msg EXCEPT ![t] = m]
    /\ pc' = [pc EXCEPT ![t] = "sync"]
    /\ nmsgs' = nmsgs + 1
    /\ UNCHANGED <<attrs, env, filters, live, dyn, force, loc, reply, call, notif>>

\* The client has read the reply; the task is free again.
Complete(t) ==
    /\ pc[t] = "done"
    /\ pc' = [pc EXCEPT ![t] = "idle"]
    /\ msg' = [msg EXCEPT ![t] = NoMessage]
    /\ loc' = [loc EXCEPT ![t] = NoLocals]
    /\ reply' = [reply EXCEPT ![t] = NoReply]
    /\ call' = [call EXCEPT ![t] = NoCall]
    /\ UNCHANGED <<attrs, env, filters, live, dyn, force, nmsgs, notif>>

\* Server.onMessage, first part: Data.Sync succeeds with config c.
Sync(t, C) ==
    /\ pc[t] = "sync"
    /\ \E c \in C :
        /\ attrs' = SyncAttrs(attrs, env, c)
        /\ live' = SyncLive(initSubscriptions(attrs), live, env, c)
    /\ filters' = initSubscriptionsFilters(attrs, filters)
    /\ pc' = [pc EXCEPT ![t] = "dispatch"]
    /\ UNCHANGED <<env, dyn, force, msg, loc, reply, call, nmsgs, notif>>

\* Server.onMessage, first part: the config factory fails, Sync returns the
\* error and the message is answered with it.
SyncFails(t) ==
    /\ pc[t] = "sync"
    /\ attrs' = initSubscriptions(attrs)
    /\ filters' = initSubscriptionsFilters(attrs, filters)
    /\ Finish(t, ErrorReply(0, "failed to load config"))
    /\ UNCHANGED <<env, live, dyn, force, msg, loc, call, nmsgs, notif>>

\* handle[T]: the method matches and the params do not unmarshal.
BadParams(t) ==
    /\ pc[t] = "dispatch"
    /\ msg[t].method \in Registered
    /\ msg[t].bad
    /\ Finish(t, ErrorReply(0, "unmarshal"))
    /\ UNCHANGED <<attrs, env, filters, live, dyn, force, msg, loc, call, nmsgs, notif>>

\* A faulty last line of Server.onMessage: the wrong error is sent.
MethodNotFoundAsInvalidParams(t) ==
    /\ pc[t] = "dispatch"
    /\ msg[t].method \notin Registered
    /\ Finish(t, ErrorReply(InvalidParamsCode, "invalid params"))
    /\ UNCHANGED <<attrs, env, filters, live, dyn, force, msg, loc, call, nmsgs, notif>>

\* Server.onMessage, last line: no handler took the message.
MethodNotFound(t) ==
    /\ pc[t] = "dispatch"
    /\ msg[t].method \notin Registered
    /\ Finish(t, ErrorReply(MethodNotFoundCode, "method not found"))
    /\ UNCHANGED <<attrs, env, filters, live, dyn, force, msg, loc, call, nmsgs, notif>>

Handles(t, method) ==
    /\ pc[t] = "dispatch"
    /\ msg[t].method = method
    /\ ~msg[t].bad

handlePing(t) ==
    /\ Handles(t, "ping")
    /\ Finish(t, Result)
    /\ UNCHANGED <<attrs, env, filters, live, dyn, force, msg, loc, call, nmsgs, notif>>

(***************************************************************************)
(* Runtime: the per-session client cache and the mapping builders.         *)
(***************************************************************************)
\* Runtime.GetClient for every server of S: the clients/<server> attributes.
AddClients(a, S) ==
    [x \in DOMAIN a \cup {ClientKey(s) : s \in S} |->
        IF x \in DOMAIN a THEN a[x] ELSE TRUE]

SeqRange(q) == {q[i] : i \in DOMAIN q}

\* The upstreams GetClient can return for refs: a cached client is returned as
\* it is, a new connection may fail.
Reachable(a, refs) ==
    {S \in SUBSET (SeqRange(refs) \cap Servers) :
        CachedClients(a) \cap SeqRange(refs) \subseteq S}

\* The entrypoints of c that are agents, in order.
RECURSIVE AgentEntrypoints(_, _)
AgentEntrypoints(entrypoint, agents) ==
    IF entrypoint = << >> THEN << >>
    ELSE (IF Head(entrypoint) \in agents THEN <<Head(entrypoint)>> ELSE << >>)
         \o AgentEntrypoints(Tail(entrypoint), agents)

\* Data.getPublishedMCPServers
getPublishedMCPServers(c) ==
    AgentEntrypoints(c.Publish.Entrypoint, c.Agents) \o c.Publish.MCPServers

\* The last ref of refs, among the reachable servers S, that offers name n;
\* offers maps a server to the names it lists.
LastRef(refs, S, offers, n) ==
    refs[CHOOSE i \in DOMAIN refs :
            /\ refs[i] \in S
            /\ n \in offers[refs[i]]
            /\ \A j \in DOMAIN refs : (refs[j] \in S /\ n \in offers[refs[j]]) => j <= i]

Offered(refs, S, offers) == UNION {offers[r] : r \in SeqRange(refs) \cap S}

\* Runtime.BuildToolMappings over the reachable servers S: published name ->
\* server; the last ref wins.
BuildToolMappings(refs, S, d) ==
    LET offers == [r \in Servers |-> UpstreamTools(r, d)]
    IN  [n \in Offered(refs, S, offers) |-> LastRef(refs, S, offers, n)]

\* Data.ToolMapping, from the config read at line 441 on: the refs it builds.
ToolRefs(c) == getPublishedMCPServers(c) \o c.Publish.Tools

(***************************************************************************)
(* initialize                                                              *)
(***************************************************************************)
SynthesizedInit(c) ==
    InitializeResult(c.Publish.Name, TRUE, TRUE, TRUE,
                     IF c.Publish.Introduction THEN {"intro"} ELSE {})

\* runInitHook fails: the session hook returned an error.
handleInitializeHookFails(t) ==
    /\ Handles(t, "initialize")
    /\ Finish(t, ErrorReply(0, "failed to invoke session hook"))
    /\ UNCHANGED <<attrs, env, filters, live, dyn, force, msg, loc, call, nmsgs, notif>>

\* reconcileEnv reports missing variables.
handleInitializeMissingEnv(t) ==
    /\ Handles(t, "initialize")
    /\ LET c == attrs[ConfigSessionKey]
           missing == reconcileMissing(env, c)
       IN  /\ missing # {}
           /\ env' = reconcileEnvMap(env, c)
           /\ Finish(t, Reply("error", InvalidParamsCode, "missing env", {}, missing,
                              NoInitializeResult))
    /\ UNCHANGED <<attrs, filters, live, dyn, force, msg, loc, call, nmsgs, notif>>

\* GetDynamicInstruction fails for the introduction.
handleInitializeIntroFails(t) ==
    /\ Handles(t, "initialize")
    /\ LET c == attrs[ConfigSessionKey]
       IN  /\ reconcileMissing(env, c) = {}
           /\ c.Publish.Introduction
           /\ env' = reconcileEnvMap(env, c)
           /\ attrs' = Refresh(attrs, FALSE)
           /\ Finish(t, ErrorReply(0, "failed to get introduction"))
    /\ UNCHANGED <<filters, live, dyn, force, msg, loc, call, nmsgs, notif>>

\* The single-server proxy goes on to fetch the upstream's client; any other
\* config is answered with the synthesized result.
handleInitialize(t) ==
    /\ Handles(t, "initialize")
    /\ LET c == attrs[ConfigSessionKey]
       IN  /\ reconcileMissing(env, c) = {}
           /\ env' = reconcileEnvMap(env, c)
           /\ attrs' = Refresh(attrs, FALSE)
           /\ IF IsSingleServerProxy(c.Publish)
              THEN /\ pc' = [pc EXCEPT ![t] = "initClient"]
                   /\ loc' = [loc EXCEPT ![t].cfg = c]
                   /\ UNCHANGED reply
              ELSE /\ Finish(t, Reply("result", 0, "", {}, {}, SynthesizedInit(c)))
                   /\ UNCHANGED loc
    /\ UNCHANGED <<filters, live, dyn, force, msg, call, nmsgs, notif>>

\* Data.InitializedClient for the only published server, and the reply.
handleInitializeProxy(t) ==
    /\ pc[t] = "initClient"
    /\ LET s == loc[t].cfg.Publish.MCPServers[1]
       IN  /\ attrs' = AddClients(attrs, {s})
           /\ live' = live \cup {s}
           /\ Finish(t, Reply("result", 0, "", {}, {}, UpstreamInit(s)))
    /\ UNCHANGED <<env, filters, dyn, force, msg, loc, call, nmsgs, notif>>

handleInitializeProxyFails(t) ==
    /\ pc[t] = "initClient"
    /\ ~Has(attrs, ClientKey(loc[t].cfg.Publish.MCPServers[1]))
    /\ Finish(t, ErrorReply(0, "failed to initialize client"))
    /\ UNCHANGED <<attrs, env, filters, live, dyn, force, msg, loc, call, nmsgs, notif>>

(***************************************************************************)
(* tools/list and tools/call                                               *)
(***************************************************************************)
\* Data.ToolMapping line 432-438: the cached mapping is returned.
ToolMappingCached(a, forceFetch) == ~forceFetch /\ Has(a, toolMappingKey)

\* Data.ToolMapping line 440-443: the config is read and the build begins.
ToolMappingBegin(t) ==
    /\ pc' = [pc EXCEPT ![t] = "buildTools"]
    /\ UNCHANGED <<reply, call>>

\* handleListTools line 247-251: the reply lists the mapping's targets in
\* sorted key order.
ListToolsReply(m) == Reply("result", 0, "", DOMAIN m, {}, NoInitializeResult)

\* A faulty handleCallTool: a miss fails at once, without refresh and retry.
LookupToolNoRetry(t, a, m) ==
    LET name == msg[t].arg
    IN  IF name \in DOMAIN m
        THEN /\ attrs' = a
             /\ loc' = [loc EXCEPT ![t].lookups = @ + 1, ![t].server = m[name],
                                   ![t].target = name]
             /\ pc' = [pc EXCEPT ![t] = "callTool"]
             /\ UNCHANGED <<reply, call>>
        ELSE /\ attrs' = a
             /\ loc' = [loc EXCEPT ![t].lookups = @ + 1]
             /\ Finish(t, ErrorReply(0, "tool not found"))
             /\ UNCHANGED call

\* handleCallTool line 204-215, after ToolMapping returned m with the
\* attribute map at a: the lookup, the refresh and the retry.
LookupTool(t, a, m) ==
    LET name == msg[t].arg
    IN  IF name \in DOMAIN m
        THEN /\ attrs' = a
             /\ loc' = [loc EXCEPT ![t].lookups = @ + 1, ![t].server = m[name],
                                   ![t].target = name]
             /\ pc' = [pc EXCEPT ![t] = "callTool"]
             /\ UNCHANGED <<reply, call>>
        ELSE IF loc[t].lookups = 0
        THEN /\ attrs' = Refresh(a, FALSE)
             /\ loc' = [loc EXCEPT ![t].lookups = 1, ![t].refreshes = @ + 1,
                                   ![t].cfg = a[ConfigSessionKey]]
             /\ ToolMappingBegin(t)
        ELSE /\ attrs' = a
             /\ loc' = [loc EXCEPT ![t].lookups = @ + 1]
             /\ Finish(t, ErrorReply(0, "tool not found"))
             /\ UNCHANGED call

handleListTools(t) ==
    /\ Handles(t, "tools/list")
    /\ IF ToolMappingCached(attrs, force)
       THEN /\ Finish(t, ListToolsReply(attrs[toolMappingKey]))
            /\ UNCHANGED <<loc, call>>
       ELSE /\ loc' = [loc EXCEPT ![t].cfg = attrs[ConfigSessionKey]]
            /\ ToolMappingBegin(t)
    /\ UNCHANGED <<attrs, env, filters, live, dyn, force, msg, nmsgs, notif>>

handleCallTool(t) ==
    /\ Handles(t, "tools/call")
    /\ IF ToolMappingCached(attrs, FALSE)
       THEN LookupTool(t, attrs, attrs[toolMappingKey])
       ELSE /\ loc' = [loc EXCEPT ![t].cfg = attrs[ConfigSessionKey]]
            /\ ToolMappingBegin(t)
            /\ UNCHANGED attrs
    /\ UNCHANGED <<env, filters, live, dyn, force, msg, nmsgs, notif>>

\* Data.ToolMapping line 443-451: the runtime has built the mapping from the
\* upstreams S it reached; it is stored and the handler goes on.
ToolMappingBuilt(t) ==
    /\ pc[t] = "buildTools"
    /\ \E S \in Reachable(attrs, ToolRefs(loc[t].cfg)) :
        LET m == BuildToolMappings(ToolRefs(loc[t].cfg), S, dyn)
            a == Set(AddClients(attrs, S), toolMappingKey, m)
        IN  /\ live' = live \cup S
            /\ IF msg[t].method = "tools/list"
               THEN /\ attrs' = a
                    /\ Finish(t, ListToolsReply(m))
                    /\ UNCHANGED <<loc, call>>
               ELSE LookupTool(t, a, m)
    /\ UNCHANGED <<env, filters, dyn, force, msg, nmsgs, notif>>

\* Data.ToolMapping line 444-446: BuildToolMappings returned an error.
ToolMappingFails(t) ==
    /\ pc[t] = "buildTools"
    /\ Finish(t, ErrorReply(0, "failed to build tool mappings"))
    /\ UNCHANGED <<attrs, env, filters, live, dyn, force, msg, loc, call, nmsgs, notif>>

\* handleCallTool line 217-234: Runtime.Call dispatches to the upstream.
handleCallToolDispatch(t) ==
    /\ pc[t] = "callTool"
    /\ call' = [call EXCEPT ![t] =
                    UpstreamCall("tools/call", loc[t].server, loc[t].target, TRUE)]
    /\ attrs' = AddClients(attrs, {loc[t].server})
    /\ live' = live \cup {loc[t].server}
    /\ \E ok \in BOOLEAN :
        reply' = [reply EXCEPT ![t] =
                    IF ok THEN Result ELSE ErrorReply(0, "tool call failed")]
    /\ pc' = [pc EXCEPT ![t] = "done"]
    /\ UNCHANGED <<env, filters, dyn, force, msg, loc, nmsgs, notif>>

(***************************************************************************)
(* Resources: mappings, template matching and the match memo.              *)
(***************************************************************************)
\* s1 lists u1 and a template for u2; s2 lists no resource and a template
\* that matches every uri but u3.
UpstreamResources(s) == IF s = "s1" THEN {"u1"} ELSE {}
UpstreamTemplates(s) == IF s = "s1" THEN {"tplB"} ELSE {"tplA"}

\* uriToRegexp(template).MatchString(uri)
TemplateMatches(tpl, uri) ==
    \/ tpl = "tplA" /\ uri \in {"u1", "u2"}
    \/ tpl = "tplB" /\ uri = "u2"

\* slices.Sorted(maps.Keys(...)): the template keys in sorted order.
SortedTemplateKeys == <<"tplA", "tplB">>

\* Data.BuildResourceMappings over the reachable servers S
BuildResourceMappings(refs, S) ==
    LET offers == [r \in Servers |-> UpstreamResources(r)]
    IN  [u \in Offered(refs, S, offers) |-> LastRef(refs, S, offers, u)]

\* Data.BuildResourceTemplateMappings over the reachable servers S
BuildResourceTemplateMappings(refs, S) ==
    LET offers == [r \in Servers |-> UpstreamTemplates(r)]
    IN  [u \in Offered(refs, S, offers) |-> LastRef(refs, S, offers, u)]

\* A faulty matchResourceURITemplate: the last match in sorted key order.
matchResourceURITemplateLast(mappings, uri) ==
    {SortedTemplateKeys[i] : i \in
        {i \in DOMAIN SortedTemplateKeys :
            /\ SortedTemplateKeys[i] \in DOMAIN mappings
            /\ TemplateMatches(SortedTemplateKeys[i], uri)
            /\ \A j \in DOMAIN SortedTemplateKeys :
                  (SortedTemplateKeys[j] \in DOMAIN mappings
                     /\ TemplateMatches(SortedTemplateKeys[j], uri)) => j <= i}}

\* Data.matchResourceURITemplate: the first template, in sorted key order,
\* whose regex matches uri (as a set: empty when none matches).
matchResourceURITemplate(mappings, uri) ==
    {SortedTemplateKeys[i] : i \in
        {i \in DOMAIN SortedTemplateKeys :
            /\ SortedTemplateKeys[i] \in DOMAIN mappings
            /\ TemplateMatches(SortedTemplateKeys[i], uri)
            /\ \A j \in 1..(i - 1) :
                  ~(SortedTemplateKeys[j] \in DOMAIN mappings
                      /\ TemplateMatches(SortedTemplateKeys[j], uri))}}

MatchKey(a, uri, keySuffix) == CurrentAgent(a) \o "::" \o uri \o keySuffix

MatchCache(a) ==
    IF Has(a, resourceTemplateMappingCacheKey) THEN a[resourceTemplateMappingCacheKey]
    ELSE [k \in {} |-> [m |-> "", t |-> ""]]

\* Data.checkResourceMatch
checkResourceMatch(a, uri, keySuffix) == MatchKey(a, uri, keySuffix) \in DOMAIN MatchCache(a)

\* A faulty cacheResourceMatch: nothing is stored.
cacheResourceMatchNothing(a, uri, server, resourceName) == a

\* Data.cacheResourceMatch
cacheResourceMatch(a, uri, server, resourceName) ==
    Set(a, resourceTemplateMappingCacheKey,
        Set(MatchCache(a), MatchKey(a, uri, ""), [m |-> server, t |-> resourceName]))

Match(ok, server, name, a) == [ok |-> ok, server |-> server, name |-> name, attrs |-> a]

ResourceRefs(c) == getPublishedMCPServers(c) \o c.Publish.Resources
ResourceTemplateRefs(c) == getPublishedMCPServers(c) \o c.Publish.ResourceTemplates

\* Data.PublishedResourceTemplateMappings: the cached mapping, or the one built
\* over S and stored.
PublishedResourceTemplateMappings(a, S) ==
    IF Has(a, resourceTemplateMappingKey) THEN a[resourceTemplateMappingKey]
    ELSE BuildResourceTemplateMappings(ResourceTemplateRefs(a[ConfigSessionKey]), S)

\* Data.MatchPublishedResource with the upstreams S reachable: the outcome and
\* the attribute map it leaves.
MatchPublishedResource(a, uri, S) ==
    IF checkResourceMatch(a, uri, "")
    THEN Match(TRUE, MatchCache(a)[MatchKey(a, uri, "")].m,
               MatchCache(a)[MatchKey(a, uri, "")].t, a)
    ELSE LET c == a[ConfigSessionKey]
             resourceMappings == BuildResourceMappings(ResourceRefs(c), S)
             a1 == AddClients(a, S)
             templates == PublishedResourceTemplateMappings(a1, S)
             a2 == Set(a1, resourceTemplateMappingKey, templates)
             hits == matchResourceURITemplate(templates, uri)
         IN  IF uri \in DOMAIN resourceMappings
             THEN Match(TRUE, resourceMappings[uri], uri,
                        cacheResourceMatch(a1, uri, resourceMappings[uri], uri))
             ELSE IF hits # {}
             THEN LET k == CHOOSE k \in hits : TRUE
                  IN  Match(TRUE, templates[k], uri,
                            cacheResourceMatch(a2, uri, templates[k], uri))
             ELSE Match(FALSE, "", "", a2)

\* The servers MatchPublishedResource may have to reach.
MatchRefs(a) ==
    ResourceRefs(a[ConfigSessionKey]) \o ResourceTemplateRefs(a[ConfigSessionKey])

(***************************************************************************)
(* resources/subscribe and resources/unsubscribe                           *)
(***************************************************************************)
Subscriptions(a) ==
    IF Has(a, ResourceSubscriptionsSessionKey) THEN a[ResourceSubscriptionsSessionKey]
    ELSE {}

\* A faulty client: the request goes out whatever the upstream advertises.
SendsSubscriptionAlways(server) == server \in Servers

\* mcp.Client.SubscribeResource / UnsubscribeResource: whether the request
\* goes out to the upstream.
SendsSubscription(server) == UpstreamInit(server).Capabilities.ResourcesSubscribe

\* Data.SubscribeToResources line 311-317: the set is read; a uri already in
\* it needs no upstream.
handleResourcesSubscribe(t) ==
    /\ Handles(t, "resources/subscribe")
    /\ LET subs == Subscriptions(attrs)
       IN  /\ loc' = [loc EXCEPT ![t].subs = subs]
           /\ IF msg[t].arg \in subs
              THEN /\ attrs' = Set(attrs, ResourceSubscriptionsSessionKey, subs)
                   /\ Finish(t, Result)
              ELSE /\ pc' = [pc EXCEPT ![t] = "subscribe"]
                   /\ UNCHANGED <<attrs, reply>>
    /\ UNCHANGED <<env, filters, live, dyn, force, msg, call, nmsgs, notif>>

\* A faulty SubscribeToResources: the set is stored as it was read.
SubscribeToResourcesForgets(t) ==
    /\ pc[t] = "subscribe"
    /\ \E S \in Reachable(attrs, MatchRefs(attrs)) :
        LET r == MatchPublishedResource(attrs, msg[t].arg, S)
        IN  /\ r.ok
            /\ live' = live \cup S \cup {r.server}
            /\ call' = [call EXCEPT ![t] =
                    UpstreamCall("resources/subscribe", r.server, r.name,
                                 SendsSubscription(r.server))]
            /\ attrs' = Set(AddClients(r.attrs, {r.server}), ResourceSubscriptionsSessionKey,
                            loc[t].subs)
    /\ Finish(t, Result)
    /\ UNCHANGED <<env, filters, dyn, force, msg, loc, nmsgs, notif>>

\* Data.SubscribeToResources line 318-337: the owner is matched, subscribed to,
\* and the set is stored.
SubscribeToResources(t) ==
    /\ pc[t] = "subscribe"
    /\ \E S \in Reachable(attrs, MatchRefs(attrs)) :
        LET r == MatchPublishedResource(attrs, msg[t].arg, S)
        IN  /\ r.ok
            /\ live' = live \cup S \cup {r.server}
            /\ call' = [call EXCEPT ![t] =
                    UpstreamCall("resources/subscribe", r.server, r.name,
                                 SendsSubscription(r.server))]
            /\ attrs' = Set(AddClients(r.attrs, {r.server}), ResourceSubscriptionsSessionKey,
                            loc[t].subs \cup {msg[t].arg})
    /\ Finish(t, Result)
    /\ UNCHANGED <<env, filters, dyn, force, msg, loc, nmsgs, notif>>

\* Data.SubscribeToResources line 319-321: no published resource matches.
SubscribeNoMatch(t) ==
    /\ pc[t] = "subscribe"
    /\ \E S \in Reachable(attrs, MatchRefs(attrs)) :
        LET r == MatchPublishedResource(attrs, msg[t].arg, S)
        IN  /\ ~r.ok
            /\ live' = live \cup S
            /\ attrs' = r.attrs
    /\ Finish(t, ErrorReply(0, "failed to read resource"))
    /\ UNCHANGED <<env, filters, dyn, force, msg, loc, call, nmsgs, notif>>

\* Data.SubscribeToResources line 328-330: the upstream call returns an error.
SubscribeFails(t) ==
    /\ pc[t] = "subscribe"
    /\ \E S \in Reachable(attrs, MatchRefs(attrs)) :
        LET r == MatchPublishedResource(attrs, msg[t].arg, S)
        IN  /\ r.ok
            /\ live' = live \cup S \cup {r.server}
            /\ call' = [call EXCEPT ![t] =
                    UpstreamCall("resources/subscribe", r.server, r.name,
                                 SendsSubscription(r.server))]
            /\ attrs' = AddClients(r.attrs, {r.server})
    /\ Finish(t, ErrorReply(0, "failed to subscribe to resource"))
    /\ UNCHANGED <<env, filters, dyn, force, msg, loc, nmsgs, notif>>

\* Data.SubscribeToResources line 323-326: no client for the owner.
SubscribeNoClient(t) ==
    /\ pc[t] = "subscribe"
    /\ \E S \in Reachable(attrs, MatchRefs(attrs)) :
        LET r == MatchPublishedResource(attrs, msg[t].arg, S)
        IN  /\ r.ok
            /\ r.server \notin S \cup CachedClients(attrs)
            /\ live' = live \cup S
            /\ attrs' = r.attrs
    /\ Finish(t, ErrorReply(0, "failed to get client"))
    /\ UNCHANGED <<env, filters, dyn, force, msg, loc, call, nmsgs, notif>>

\* Data.UnsubscribeFromResources line 281-283: the set is read; a uri that is
\* not in it needs no upstream.
handleResourcesUnsubscribe(t) ==
    /\ Handles(t, "resources/unsubscribe")
    /\ LET subs == Subscriptions(attrs)
       IN  /\ loc' = [loc EXCEPT ![t].subs = subs]
           /\ IF msg[t].arg \notin subs
              THEN /\ attrs' = Set(attrs, ResourceSubscriptionsSessionKey, subs)
                   /\ Finish(t, Result)
              ELSE /\ pc' = [pc EXCEPT ![t] = "unsubscribe"]
                   /\ UNCHANGED <<attrs, reply>>
    /\ UNCHANGED <<env, filters, live, dyn, force, msg, call, nmsgs, notif>>

\* Data.UnsubscribeFromResources line 284-303
UnsubscribeFromResources(t) ==
    /\ pc[t] = "unsubscribe"
    /\ \E S \in Reachable(attrs, MatchRefs(attrs)) :
        LET r == MatchPublishedResource(attrs, msg[t].arg, S)
        IN  /\ r.ok
            /\ live' = live \cup S \cup {r.server}
            /\ call' = [call EXCEPT ![t] =
                    UpstreamCall("resources/unsubscribe", r.server, r.name,
                                 SendsSubscription(r.server))]
            /\ attrs' = Set(AddClients(r.attrs, {r.server}), ResourceSubscriptionsSessionKey,
                            loc[t].subs \ {msg[t].arg})
    /\ Finish(t, Result)
    /\ UNCHANGED <<env, filters, dyn, force, msg, loc, nmsgs, notif>>

\* Data.UnsubscribeFromResources line 285-296: the match, the client or the
\* upstream call fails; the set is left as it is.
UnsubscribeFails(t) ==
    /\ pc[t] = "unsubscribe"
    /\ \E S \in Reachable(attrs, MatchRefs(attrs)) :
        LET r == MatchPublishedResource(attrs, msg[t].arg, S)
        IN  /\ live' = live \cup S
            /\ attrs' = r.attrs
    /\ Finish(t, ErrorReply(0, "failed to unsubscribe"))
    /\ UNCHANGED <<env, filters, dyn, force, msg, loc, call, nmsgs, notif>>

(***************************************************************************)
(* Upstream notifications and the subscription filter.                     *)
(***************************************************************************)
Malformed == "malformed"

\* A faulty filter: it passes every update once the session has subscribed to
\* anything.
FilterPassesAnySubscriber(a, p) ==
    \/ p = Malformed
    \/ Subscriptions(a) # {}

\* The filter initSubscriptions attaches (line 236-260): whether a
\* notifications/resources/updated whose params carry p passes it.
FilterPasses(a, p) ==
    \/ p = Malformed
    \/ p \in Subscriptions(a)

\* An upstream with an open client sends notifications/resources/updated; the
\* session's filters decide whether the client gets it.
UpstreamNotifies ==
    /\ live # {}
    /\ notif = NoNotification
    /\ \E p \in URIs \cup {Malformed} :
        notif' = Notification(p, filters = 0 \/ FilterPasses(attrs, p))
    /\ UNCHANGED <<attrs, env, filters, live, dyn, force, pc, msg, loc, reply, call, nmsgs>>

ClientReadsNotification ==
    /\ notif # NoNotification
    /\ notif' = NoNotification
    /\ UNCHANGED <<attrs, env, filters, live, dyn, force, pc, msg, loc, reply, call, nmsgs>>

\* Upstream s1 adds or withdraws its tool "x".
UpstreamChanges ==
    /\ dyn' = ~dyn
    /\ UNCHANGED <<attrs, env, filters, live, force, pc, msg, loc, reply, call, nmsgs, notif>>

\* The full environment: every declared variable has a value.
FullEnv == [k \in {"K1", "K2"} |-> "v"]

(***************************************************************************)
(* Part 2: the agent completion loop (pkg/agents, pkg/llm).                *)
(*                                                                         *)
(* One run of an agent is modelled.  A turn calls the completer through    *)
(* llm.Client.Complete and then executes the tool calls of the response    *)
(* with Agents.toolCalls, which is cut into steps where it waits for a     *)
(* tool; the client may cancel the originating request between any two     *)
(* steps.                                                                  *)
(***************************************************************************)
MaxTurns == 3
MaxItems == 2

CallIDs == {"c1", "c2"}
AgentTools == {"x", "ghost"}
Reasons == {<<"n", "o">>, <<"N", "O">>}
RequestIDs == {1, 2}

\* run.ToolToMCPServer: "ghost" has no mapping.
ToolToMCPServer == [n \in {"x"} |-> "s1"]

\* types.CompletionItem: a content item, or a tool call.
ContentItem(text) == [ToolCall |-> FALSE, CallID |-> "", Name |-> "", Text |-> text]
ToolCallItem(c, n) == [ToolCall |-> TRUE, CallID |-> c, Name |-> n, Text |-> <<>>]
Items ==
    {ContentItem(<<"h", "i">>)} \cup {ToolCallItem(c, n) : c \in CallIDs, n \in AgentTools}

\* types.CompletionResponse.Output: what a completer may return.
Responses == UNION {[1..n -> Items] : n \in 0..MaxItems}

\* The run struct and the toolCall struct of its ToolOutputs.
toolCall(output) == [Output |-> output, Done |-> TRUE]
NewRun == [Response |-> <<>>, ToolOutputs |-> [c \in {} |-> toolCall("")], Done |-> FALSE]
IsDone(r, c) == c \in DOMAIN r.ToolOutputs /\ r.ToolOutputs[c].Done

\* The cause of the request context's cancellation.
NoCancel == [cause |-> "none", reason |-> <<>>]

NoOutput == [kind |-> "none"]
\* The control state of the run.
NewAgent(token) ==
    [pc |-> "populate", turn |-> 0, pos |-> 1, cancel |-> NoCancel, during |-> "",
     inflight |-> {}, started |-> <<>>, token |-> token, progress |-> <<>>,
     err |-> "nil", output |-> NoOutput]
NoAgent == [NewAgent(FALSE) EXCEPT !.pc = "off"]

\* strings.ToUpper, letter by letter.
UpperChar(c) ==
    CASE c = "a" -> "A" [] c = "b" -> "B" [] c = "c" -> "C" [] c = "d" -> "D"
      [] c = "e" -> "E" [] c = "f" -> "F" [] c = "g" -> "G" [] c = "h" -> "H"
      [] c = "i" -> "I" [] c = "j" -> "J" [] c = "k" -> "K" [] c = "l" -> "L"
      [] c = "m" -> "M" [] c = "n" -> "N" [] c = "o" -> "O" [] c = "p" -> "P"
      [] c = "q" -> "Q" [] c = "r" -> "R" [] c = "s" -> "S" [] c = "t" -> "T"
      [] c = "u" -> "U" [] c = "v" -> "V" [] c = "w" -> "W" [] c = "x" -> "X"
      [] c = "y" -> "Y" [] c = "z" -> "Z" [] OTHER -> c
ToUpper(s) == [i \in DOMAIN s |-> UpperChar(s[i])]

\* mcp.RequestCancelledError.Error.
RequestCancelledError(reason) ==
    <<"r", "e", "q", "u", "e", "s", "t", " ",
      "c", "a", "n", "c", "e", "l", "l", "e", "d", ":", " ">> \o reason

\* The completer behind Client.Complete (anthropic, completions or
\* responses): with the context cancelled it returns context.Canceled,
\* possibly next to what it had produced so far.
Completer(cancel) ==
    IF cancel = NoCancel
    THEN {[ret |-> r, err |-> "nil"] : r \in Responses}
         \cup {[ret |-> <<>>, err |-> "completer"]}
    ELSE {[ret |-> r, err |-> "canceled"] :
            r \in {<<>>, <<ToolCallItem("c1", "x")>>}}

\* A faulty Client.Complete: a cancelled completer's partial output is kept.
ClientCompleteKeepsPartial(inner, cancel, token) ==
    IF inner.err = "canceled" /\ cancel.cause = "request"
    THEN [ret |-> inner.ret \o <<ContentItem(ToUpper(RequestCancelledError(cancel.reason)))>>,
          err |-> "nil", progress |-> <<>>]
    ELSE [ret |-> inner.ret, err |-> inner.err, progress |-> <<>>]

\* Client.Complete: the deferred function turns a completer call cancelled
\* by the client into a response holding one synthetic assistant message.
ClientComplete(inner, cancel, token) ==
    IF inner.err = "canceled" /\ cancel.cause = "request"
    THEN LET item == ContentItem(ToUpper(RequestCancelledError(cancel.reason)))
         IN  [ret |-> <<item>>, err |-> "nil",
              progress |-> IF token THEN <<item>> ELSE <<>>]
    ELSE [ret |-> inner.ret, err |-> inner.err, progress |-> <<>>]

\* Server.onMessage: the error reply of a failed handler.
SendError(err, cancel) ==
    IF cancel.cause = "request"
    THEN [kind |-> "error", code |-> "RequestCancelled", message |-> cancel.reason]
    ELSE [kind |-> "error", code |-> err, message |-> <<>>]

\* The run fails with err.
Fails(err) ==
    ag' = [ag EXCEPT !.pc = "failed", !.err = err, !.inflight = {},
                     !.output = SendError(err, ag.cancel)]

\* The context of the run is done.
CtxDone == ag.cancel # NoCancel

\* What confirm and registry.Call may answer: a cancelled context only
\* lets them fail.
CallOutcomes == IF CtxDone THEN {"error"} ELSE {"result", "denied", "error"}

\* A faulty turn loop: no limit on the number of turns.
PopulateUnbounded ==
    /\ ag.pc = "populate"
    /\ run' = NewRun
    /\ ag' = [ag EXCEPT !.pc = "complete", !.turn = @ + 1, !.pos = 1, !.started = <<>>]
    /\ UNCHANGED <<svars, tr, el, ovars>>

\* The start of a turn: a fresh run struct, unless the turn limit is reached.
Populate ==
    /\ ag.pc = "populate"
    /\ ag.turn < MaxTurns
    /\ run' = NewRun
    /\ ag' = [ag EXCEPT !.pc = "complete", !.turn = @ + 1, !.pos = 1, !.started = <<>>]
    /\ UNCHANGED <<svars, tr, el, ovars>>

TurnLimitExceeded ==
    /\ ag.pc = "populate"
    /\ ag.turn >= MaxTurns
    /\ Fails("TurnLimitExceeded")
    /\ UNCHANGED <<svars, run, tr, el, ovars>>

\* The completer call of the turn returns.
CompleterReturns ==
    /\ ag.pc = "complete"
    /\ \E inner \in Completer(ag.cancel) :
        LET c == ClientComplete(inner, ag.cancel, ag.token)
        IN  IF c.err # "nil"
            THEN Fails(c.err) /\ UNCHANGED run
            ELSE /\ run' = [run EXCEPT !.Response = c.ret]
                 /\ ag' = [ag EXCEPT !.pc = "tools", !.pos = 1,
                                     !.progress = @ \o c.progress]
    /\ UNCHANGED <<svars, tr, el, ovars>>

\* Agents.toolCalls: the item the loop over run.Response.Output stands at.
Item == run.Response[ag.pos]
Pending ==
    /\ ag.pc = "tools" /\ ag.pos <= Len(run.Response)
    /\ Item.ToolCall /\ ~IsDone(run, Item.CallID)

\* An item that is no tool call, or a call already done, is passed over.
ToolCallsSkip ==
    /\ ag.pc = "tools" /\ ag.pos <= Len(run.Response)
    /\ ~Item.ToolCall \/ IsDone(run, Item.CallID)
    /\ ag' = [ag EXCEPT !.pos = @ + 1]
    /\ UNCHANGED <<svars, run, tr, el, ovars>>

\* A faulty toolCalls: a tool without a mapping is passed over.
ToolCallsUnmappedSkipped ==
    /\ Pending
    /\ Item.Name \notin DOMAIN ToolToMCPServer
    /\ ag' = [ag EXCEPT !.pos = @ + 1]
    /\ UNCHANGED <<svars, run, tr, el, ovars>>

\* A faulty toolCalls: a tool without a mapping is recorded as done before
\* the error is returned.
ToolCallsUnmappedRecorded ==
    /\ Pending
    /\ Item.Name \notin DOMAIN ToolToMCPServer
    /\ run' = [run EXCEPT !.ToolOutputs = Set(@, Item.CallID, toolCall("error"))]
    /\ Fails("ToolNotMapped")
    /\ UNCHANGED <<svars, tr, el, ovars>>

\* "can not map tool": toolCalls returns the error.
ToolCallsUnmapped ==
    /\ Pending
    /\ Item.Name \notin DOMAIN ToolToMCPServer
    /\ Fails("ToolNotMapped")
    /\ UNCHANGED <<svars, run, tr, el, ovars>>

\* A faulty toolCalls: the call is started and the loop goes on without
\* waiting for its result.
InvokeBeginAsync ==
    /\ Pending
    /\ Item.Name \in DOMAIN ToolToMCPServer
    /\ ag' = [ag EXCEPT !.pos = @ + 1,
                        !.inflight = @ \cup {Item.CallID},
                        !.started = Append(@, Item.CallID)]
    /\ UNCHANGED <<svars, run, tr, el, ovars>>

\* a.invoke is called for the item: the loop waits for it.
InvokeBegin ==
    /\ Pending
    /\ Item.Name \in DOMAIN ToolToMCPServer
    /\ ag' = [ag EXCEPT !.pc = "invoking",
                        !.inflight = @ \cup {Item.CallID},
                        !.started = Append(@, Item.CallID)]
    /\ UNCHANGED <<svars, run, tr, el, ovars>>

\* A faulty toolCalls: a failed invoke is recorded as the call's output.
InvokeFailsRecorded ==
    /\ ag.pc = "invoking"
    /\ "error" \in CallOutcomes
    /\ run' = [run EXCEPT !.ToolOutputs = Set(@, Item.CallID, toolCall("error"))]
    /\ ag' = [ag EXCEPT !.pc = "tools", !.pos = @ + 1, !.inflight = @ \ {Item.CallID}]
    /\ UNCHANGED <<svars, tr, el, ovars>>

\* a.invoke fails (arguments, confirmation, the call itself, or the
\* context): toolCalls returns the error.
InvokeFails ==
    /\ ag.pc = "invoking"
    /\ "error" \in CallOutcomes
    /\ Fails("invoke")
    /\ UNCHANGED <<svars, run, tr, el, ovars>>

\* a.invoke returns the call's output (the tool's result, or the answer of
\* a denied confirmation): it is recorded as done.
InvokeReturns ==
    /\ ag.pc = "invoking"
    /\ \E o \in CallOutcomes \ {"error"} :
        run' = [run EXCEPT !.ToolOutputs = Set(@, Item.CallID, toolCall(o))]
    /\ ag' = [ag EXCEPT !.pc = "tools", !.pos = @ + 1, !.inflight = @ \ {Item.CallID}]
    /\ UNCHANGED <<svars, tr, el, ovars>>

\* A faulty toolCalls: the run is done whatever the response held.
ToolCallsReturnsDone ==
    /\ ag.pc = "tools"
    /\ ag.pos > Len(run.Response)
    /\ run' = [run EXCEPT !.Done = TRUE]
    /\ ag' = [ag EXCEPT !.pc = "finished",
                        !.output = [kind |-> "response", items |-> run.Response]]
    /\ UNCHANGED <<svars, tr, el, ovars>>

\* The loop is over: toolCalls returns nil, and the turn loop goes on
\* unless the run is done.
ToolCallsReturns ==
    /\ ag.pc = "tools"
    /\ ag.pos > Len(run.Response)
    /\ LET done == DOMAIN run.ToolOutputs = {}
       IN  /\ run' = [run EXCEPT !.Done = done]
           /\ ag' = IF done
                    THEN [ag EXCEPT !.pc = "finished",
                                    !.output = [kind |-> "response", items |-> run.Response]]
                    ELSE [ag EXCEPT !.pc = "populate"]
    /\ UNCHANGED <<svars, tr, el, ovars>>

Running == ag.pc \in {"populate", "complete", "tools", "invoking"}

\* Server.handleCancelled: Session.StopAllFromRequestID cancels the context
\* registered under the request id, with the reason as its cause.  The run
\* was started by request 1.
handleCancelled ==
    /\ Running
    /\ \E id \in RequestIDs, reason \in Reasons :
        ag' = IF id = 1 /\ ~CtxDone
              THEN [ag EXCEPT !.cancel = [cause |-> "request", reason |-> reason], !.during = ag.pc]
              ELSE ag
    /\ UNCHANGED <<svars, run, tr, el, ovars>>

\* The session's context ends for another cause than a cancelled request.
SessionCloses ==
    /\ Running
    /\ ~CtxDone
    /\ ag' = [ag EXCEPT !.cancel = [cause |-> "closed", reason |-> <<>>], !.during = ag.pc]
    /\ UNCHANGED <<svars, run, tr, el, ovars>>


(***************************************************************************)
(* Part 4: truncateToolResult (pkg/agents/truncate.go).                    *)
(*                                                                         *)
(* Texts are sequences of characters.  The limit is scaled down, and so    *)
(* are the notes the function writes: a note is a short sequence holding   *)
(* its variable parts (the file path, the content type) as one element     *)
(* each.                                                                   *)
(***************************************************************************)
maxToolResultSize == 6
MaxContent == 2

\* strings.Repeat(c, n).
Repeat(c, n) == [i \in 1..n |-> c]

\* mcp.Content: text (also with an empty type) and image items, with or
\* without the skip-truncation meta, small, near the limit and beyond it.
Lens == {0, 1, maxToolResultSize - 1, maxToolResultSize, maxToolResultSize + 1}
Contents ==
    {[Type |-> t, Text |-> Repeat("x", n), Data |-> <<>>, skip |-> k] :
        t \in {"text", ""}, n \in Lens, k \in BOOLEAN}
    \cup {[Type |-> "image", Text |-> <<>>, Data |-> Repeat("d", n), skip |-> k] :
            n \in Lens, k \in BOOLEAN}
TextContent(text) == [Type |-> "text", Text |-> text, Data |-> <<>>, skip |-> FALSE]

\* types.Message holding one tool call result; a nil message, a message
\* without items and an item without a result are inputs too.  Agent stands
\* for the fields of types.CallResult other than Content and IsError.
ToolResultMessage(content, isError) ==
    [nil |-> FALSE, ID |-> "msg-1", Role |-> "user",
     Items |-> <<[ID |-> "item-1", hasResult |-> TRUE, CallID |-> "call1",
                  OutputRole |-> "",
                  Output |-> [Content |-> content, IsError |-> isError,
                              Agent |-> "agent-1"]]>>]

\* Agents.invoke: OutputRole is the output role of the flow the tool belongs
\* to, empty for a tool of an MCP server.
OutputRoles == {"", "assistant"}
NilMessage == [nil |-> TRUE, ID |-> "", Role |-> "", Items |-> <<>>]
Messages ==
    {[ToolResultMessage(c, e) EXCEPT !.Items[1].OutputRole = r] :
        c \in UNION {[1..n -> Contents] : n \in 0..MaxContent}, e \in BOOLEAN,
        r \in OutputRoles}
    \cup {NilMessage, [NilMessage EXCEPT !.nil = FALSE],
          [ToolResultMessage(<<>>, FALSE) EXCEPT !.Items[1].hasResult = FALSE]}

\* hasSkipTruncation.
hasSkipTruncation(content) == \E i \in DOMAIN content : content[i].skip

\* contentSize.
RECURSIVE contentSize(_)
contentSize(content) ==
    IF content = <<>> THEN 0
    ELSE LET c == Head(content)
         IN  (IF c.Type \in {"text", ""} THEN Len(c.Text) ELSE Len(c.Data))
             + contentSize(Tail(content))

\* The test of truncateToolResult that lets a result pass, off by one.
fitsBelow(size) == size < maxToolResultSize
\* truncateToolResult: size <= maxToolResultSize.
fits(size) == size <= maxToolResultSize

\* The length sanitizePathComponent cuts a component to (100 in the code,
\* scaled; "unnamed" is not longer, as it is not longer than 100).
maxComponentLen == 7

\* The characters sanitizeRe leaves alone: [a-zA-Z0-9_\-.].
PathChars ==
    {"a", "b", "c", "d", "e", "f", "g", "h", "i", "j", "k", "l", "m", "n", "o", "p", "q",
     "r", "s", "t", "u", "v", "w", "x", "y", "z",
     "A", "B", "C", "D", "E", "F", "G", "H", "I", "J", "K", "L", "M", "N", "O", "P", "Q",
     "R", "S", "T", "U", "V", "W", "X", "Y", "Z",
     "0", "1", "2", "3", "4", "5", "6", "7", "8", "9", "_", "-", "."}

\* A faulty sanitizePathComponent that does not cut the component.
sanitizePathComponentUncut(str) ==
    LET clean == [i \in DOMAIN str |-> IF str[i] \in PathChars THEN str[i] ELSE "_"]
        dots == {i \in DOMAIN clean : \A j \in 1..i : clean[j] = "."}
        trimmed == SubSeq(clean, Cardinality(dots) + 1, Len(clean))
    IN  IF trimmed = <<>> THEN <<"u", "n", "n", "a", "m", "e", "d">> ELSE trimmed

\* sanitizePathComponent: every other character becomes "_", leading dots
\* are trimmed, the rest is cut to the maximal length, and an empty result
\* becomes "unnamed".
sanitizePathComponent(str) ==
    LET clean == [i \in DOMAIN str |-> IF str[i] \in PathChars THEN str[i] ELSE "_"]
        dots == {i \in DOMAIN clean : \A j \in 1..i : clean[j] = "."}
        trimmed == SubSeq(clean, Cardinality(dots) + 1, Len(clean))
        capped == IF Len(trimmed) > maxComponentLen
                  THEN SubSeq(trimmed, 1, maxComponentLen) ELSE trimmed
    IN  IF capped = <<>> THEN <<"u", "n", "n", "a", "m", "e", "d">> ELSE capped

\* The extension: .txt unless some item is neither text nor untyped.
Ext(content) ==
    IF \E i \in DOMAIN content : content[i].Type \notin {"", "text"}
    THEN ".json" ELSE ".txt"

\* filepath.Join(".nanobot", session, "truncated-outputs", tool-callID.ext).
FilePath(sessionID, toolName, callID, content) ==
    [session |-> sanitizePathComponent(sessionID),
     name |-> sanitizePathComponent(toolName) \o <<"-">> \o sanitizePathComponent(callID),
     ext |-> Ext(content)]

\* writeFullResult: the texts joined by newlines, or the items as JSON.
RECURSIVE JoinTexts(_)
JoinTexts(content) ==
    IF content = <<>> THEN <<>>
    ELSE IF Len(content) = 1 THEN content[1].Text
    ELSE content[1].Text \o <<"\n">> \o JoinTexts(Tail(content))
writeFullResult(content) ==
    IF Ext(content) = ".txt"
    THEN [format |-> "text", text |-> JoinTexts(content), items |-> <<>>]
    ELSE [format |-> "json", text |-> <<>>, items |-> content]

\* The notes of buildTruncatedContent and truncateToolResult.
Suffix(filePath) == <<"\n", "\n", "[Truncated: ", filePath, "]">>
Note(type, filePath) == <<"[", type, " content written to ", filePath, "]">>
Notice(filePath) == <<"Note: failed to persist ", filePath, ".">>

\* A faulty buildTruncatedContent: a text beyond the budget is not cut.
RECURSIVE truncatedUncut(_, _, _)
truncatedUncut(content, remaining, filePath) ==
    IF content = <<>> \/ remaining <= 0 THEN <<>>
    ELSE LET c == Head(content)
             text == IF c.Type \in {"text", ""} THEN c.Text ELSE Note(c.Type, filePath)
         IN  <<TextContent(text)>>
             \o truncatedUncut(Tail(content), remaining - Len(text), filePath)

\* buildTruncatedContent, its loop: items while budget remains, a text cut
\* to what remains, another item replaced by a note.
RECURSIVE truncated(_, _, _)
truncated(content, remaining, filePath) ==
    IF content = <<>> \/ remaining <= 0 THEN <<>>
    ELSE LET c == Head(content)
             text == IF c.Type \in {"text", ""}
                     THEN (IF Len(c.Text) > remaining
                           THEN SubSeq(c.Text, 1, remaining) ELSE c.Text)
                     ELSE Note(c.Type, filePath)
         IN  <<TextContent(text)>>
             \o truncated(Tail(content), remaining - Len(text), filePath)

\* buildTruncatedContent: the suffix is reserved first and appended last.
buildTruncatedContent(content, budget, filePath) ==
    LET suffix == Suffix(filePath)
        remaining == IF budget - Len(suffix) < 0 THEN 0 ELSE budget - Len(suffix)
    IN  truncated(content, remaining, filePath) \o <<TextContent(suffix)>>

\* A faulty truncateToolResult: the new output is built from scratch.
newOutputFresh(output, content) == [Content |-> content, IsError |-> FALSE, Agent |-> ""]
\* truncateToolResult: newOutput := result.Output; newOutput.Content = ...
newOutput(output, content) == [output EXCEPT !.Content = content]

NoFiles == [f \in {} |-> TRUE]

\* truncateToolResult: the message it returns and the files it leaves,
\* writeOK telling whether the file could be written.
truncateToolResult(sessionID, toolName, callID, m, writeOK) ==
    IF m.nil \/ m.Items = <<>> \/ ~m.Items[1].hasResult
    THEN [msg |-> m, files |-> NoFiles]
    ELSE LET result == m.Items[1]
             content == result.Output.Content
             filePath == FilePath(sessionID, toolName, callID, content)
             built == buildTruncatedContent(content, maxToolResultSize, filePath)
         IN  IF content = <<>> \/ hasSkipTruncation(content) \/ fits(contentSize(content))
             THEN [msg |-> m, files |-> NoFiles]
             ELSE [msg |-> [m EXCEPT !.Items =
                      <<[ID |-> result.ID, hasResult |-> TRUE, CallID |-> result.CallID,
                         OutputRole |-> "",
                         Output |-> newOutput(result.Output,
                            IF writeOK THEN built
                            ELSE <<TextContent(Notice(filePath))>> \o built)]>>],
                   files |-> IF writeOK
                             THEN [f \in {filePath} |-> writeFullResult(content)]
                             ELSE NoFiles]

\* The tool names the results come from.
TruncTools == {<<"b", "i", "g">>, <<".", "/", "t">>}

\* One call of truncateToolResult: its arguments, then what it returned.
NewTrunc(toolName, m) ==
    [pc |-> "call", tool |-> toolName, msg |-> m, writeOK |-> TRUE,
     result |-> m, files |-> NoFiles]
NoTrunc == [NewTrunc(<<>>, NilMessage) EXCEPT !.pc = "off"]

Truncates ==
    /\ tr.pc = "call"
    /\ \E writeOK \in BOOLEAN :
        LET r == truncateToolResult(<<>>, tr.tool, <<"c", "a", "l", "l", "1">>, tr.msg, writeOK)
        IN  tr' = [tr EXCEPT !.pc = "done", !.writeOK = writeOK,
                             !.result = r.msg, !.files = r.files]
    /\ UNCHANGED <<svars, run, ag, el, ovars>>


(***************************************************************************)
(* Part 3: elicit.Answer, the command-line client's answer to an           *)
(* elicitation of the server.                                              *)
(***************************************************************************)
MaxElicits == 3

\* types.ToolCallConfirmType, the marker of a tool-call confirmation.
ToolCallConfirmType == "tool-confirm"

\* json.Unmarshal(request.Meta, &tool): no _meta and a malformed one fail
\* to decode; otherwise tool.Type is the decoded type.
DecodeMeta(meta) ==
    CASE meta = "confirm" -> [err |-> FALSE, Type |-> ToolCallConfirmType]
      [] meta = "other"   -> [err |-> FALSE, Type |-> "form"]
      [] OTHER            -> [err |-> TRUE, Type |-> ""]

\* mcp.ElicitRequest: its _meta and the properties of its requested schema
\* (all boolean).
ElicitRequests ==
    [Meta : {"absent", "malformed", "confirm", "other"}, keys : {{}, {"ok"}}]

\* What the user does with the form: the program fails to run, or the form
\* is submitted, interrupted or broken, with the confirm field at value.
Forms == [runErr : BOOLEAN, action : {"accept", "cancel"}, err : BOOLEAN, value : BOOLEAN]

NoResult == [Action |-> "", Content |-> [k \in {} |-> TRUE], err |-> "nil"]

\* model.GetAction: an unticked confirmation of a form without fields
\* is a rejection.
GetAction(request, form) ==
    IF request.keys = {} /\ ~form.value /\ form.action = "accept"
    THEN "reject"
    ELSE form.action

\* model.Values: the value of every boolean field.
Values(request, form) == [k \in request.keys |-> form.value]

\* A faulty Answer: the form is shown whatever the flag says.
AnswerAsksAnyway(request, autoApproveTool, form) ==
    [ran |-> TRUE,
     result |->
        IF form.runErr THEN [NoResult EXCEPT !.err = "run"]
        ELSE IF form.err THEN [NoResult EXCEPT !.err = "form"]
        ELSE [Action |-> GetAction(request, form),
              Content |-> Values(request, form), err |-> "nil"]]

\* elicit.Answer: a tool-call confirmation is accepted for good without
\* asking when tools are auto-approved; anything else is put to the user
\* as a form.
Answer(request, autoApproveTool, form) ==
    LET tool == DecodeMeta(request.Meta)
    IN  IF ~tool.err /\ tool.Type = ToolCallConfirmType /\ autoApproveTool
        THEN [ran |-> FALSE,
              result |-> [Action |-> "accept",
                          Content |-> [k \in {"answer"} |-> "always"],
                          err |-> "nil"]]
        ELSE [ran |-> TRUE,
              result |->
                 IF form.runErr THEN [NoResult EXCEPT !.err = "run"]
                 ELSE IF form.err THEN [NoResult EXCEPT !.err = "form"]
                 ELSE [Action |-> GetAction(request, form),
                       Content |-> Values(request, form), err |-> "nil"]]

\* The client's state: the flag it was started with, the elicitation it
\* holds, the number it has answered and the number of forms it has shown.
NewElicit(auto) ==
    [pc |-> "wait", auto |-> auto, n |-> 0, shown |-> 0,
     request |-> [Meta |-> "absent", keys |-> {}], ran |-> FALSE, result |-> NoResult]
NoElicit == [NewElicit(FALSE) EXCEPT !.pc = "off"]

\* An elicitation of the server arrives.
Elicit ==
    /\ el.pc \in {"wait", "answered"}
    /\ el.n < MaxElicits
    /\ \E request \in ElicitRequests :
        el' = [el EXCEPT !.pc = "asked", !.request = request]
    /\ UNCHANGED <<svars, run, ag, tr, ovars>>

\* The client answers it with elicit.Answer.
Answers ==
    /\ el.pc = "asked"
    /\ \E form \in Forms :
        LET a == Answer(el.request, el.auto, form)
        IN  el' = [el EXCEPT !.pc = "answered", !.n = @ + 1, !.ran = a.ran,
                             !.shown = IF a.ran THEN @ + 1 ELSE @,
                             !.result = a.result]
    /\ UNCHANGED <<svars, run, ag, tr, ovars>>


\* No agent runs, nothing is truncated and no elicitation is answered.
(***************************************************************************)
(* Part 5: pure functions.  A function is applied to an input drawn from a *)
(* bounded set; sanitizePathComponent is applied a second time to its own  *)
(* result.                                                                 *)
(***************************************************************************)
\* The characters of the path components drawn: one that is kept, the dot
\* and one that is replaced.
ComponentChars == {"a", ".", "/"}

\* The components drawn: every string of up to one character more than
\* the maximal length.
Components == UNION {[1..n -> ComponentChars] : n \in 0..(maxComponentLen + 1)}

\* A function about to be applied to the input in (and the argument arg).
NewFn(f, in, arg) == [pc |-> f, in |-> in, arg |-> arg, out |-> <<>>, again |-> <<>>]
NoFn == NewFn("none", <<>>, <<>>)

\* sanitizePathComponent(s) and sanitizePathComponent of its result.
Sanitizes ==
    /\ fn.pc = "sanitize"
    /\ fn' = [fn EXCEPT !.pc = "sanitized",
                        !.out = sanitizePathComponent(fn.in),
                        !.again = sanitizePathComponent(sanitizePathComponent(fn.in))]
    /\ UNCHANGED <<svars, run, ag, tr, el, col, cp, ms>>

\* strings.Cut: the text before and after the first sep, or the whole text
\* and nothing when sep does not occur.
Cut(str, sep) ==
    LET at == {i \in DOMAIN str : str[i] = sep}
        first == CHOOSE i \in at : \A j \in at : i <= j
    IN  IF at = {} THEN [before |-> str, after |-> <<>>, found |-> FALSE]
        ELSE [before |-> SubSeq(str, 1, first - 1),
              after |-> SubSeq(str, first + 1, Len(str)),
              found |-> TRUE]

\* types.ParseToolRef.
ParseToolRef(ref) ==
    LET byColon == Cut(ref, ":")
        name == byColon.before
        as == byColon.after
        bySlash == Cut(name, "/")
    IN  [Server |-> bySlash.before, Tool |-> bySlash.after, As |-> as]

\* ToolRef.PublishedName.
PublishedName(t, name) ==
    IF t.As # <<>> THEN t.As
    ELSE IF t.Tool # <<>> THEN t.Tool
    ELSE IF name = <<>> THEN t.Server
    ELSE name

\* The longest reference drawn.
MaxRef == 5

\* The references drawn: every text of up to MaxRef characters over three
\* letters and the two separators; the names drawn: none and "x".
RefChars == {"a", "s", "t", ":", "/"}
Refs == UNION {[1..n -> RefChars] : n \in 0..MaxRef}
RefNames == {<<>>, <<"x">>}

\* ParseToolRef(ref).PublishedName(name).
PublishesName ==
    /\ fn.pc = "ref"
    /\ fn' = [fn EXCEPT !.pc = "published",
                        !.out = PublishedName(ParseToolRef(fn.in), fn.arg)]
    /\ UNCHANGED <<svars, run, ag, tr, el, col, cp, ms>>

\* The timeouts of the system server, in milliseconds.
defaultHTTPTimeout == 30000
maxHTTPTimeout == 120000
defaultBashTimeout == 120000
maxBashTimeout == 600000

\* The built-in max of two durations.
max(a, b) == IF a >= b THEN a ELSE b

\* The Timeout parameter (a *int): nil, or a number.
NilTimeout == [set |-> FALSE, v |-> 0]
TimeoutParams ==
    {NilTimeout} \cup {[set |-> TRUE, v |-> n] : n \in {0, 1, 30, 119, 120, 121, 600, 601}}

\* Server.webFetch: the timeout of the HTTP client, Timeout in seconds.
webFetchTimeout(Timeout) ==
    IF Timeout.set THEN max(Timeout.v * 1000, maxHTTPTimeout) ELSE defaultHTTPTimeout

\* Server.bash: the timeout of the command, Timeout in milliseconds.
bashTimeout(Timeout) ==
    IF Timeout.set THEN max(Timeout.v, maxBashTimeout) ELSE defaultBashTimeout

\* Server.webFetch up to the creation of its HTTP client.
WebFetch ==
    /\ fn.pc = "webFetch"
    /\ fn' = [fn EXCEPT !.pc = "fetching", !.out = webFetchTimeout(fn.in)]
    /\ UNCHANGED <<svars, run, ag, tr, el, col, cp, ms>>

\* Server.bash up to the creation of the command's context.
Bash ==
    /\ fn.pc = "bash"
    /\ fn' = [fn EXCEPT !.pc = "bashing", !.out = bashTimeout(fn.in)]
    /\ UNCHANGED <<svars, run, ag, tr, el, col, cp, ms>>

\* The prompts each upstream lists.
UpstreamPrompts(s) == IF s = "s1" THEN {"p1", "p"} ELSE {"p2", "p"}

\* Data.BuildPromptMappings over the reachable servers S, under a config
\* without inline prompts: the first ref whose client cannot be obtained
\* makes the build return the error.
BuildPromptMappings(refs, S) ==
    LET offers == [r \in Servers |-> UpstreamPrompts(r)]
    IN  IF \E i \in DOMAIN refs : refs[i] \notin S
        THEN [err |-> "failed to get client", mappings |-> <<>>]
        ELSE [err |-> "nil",
              mappings |-> [n \in Offered(refs, S, offers) |-> LastRef(refs, S, offers, n)]]

\* The refs the builders are given: the upstreams in every order, with and
\* without repetition.
MaxRefs == 2
MappingRefs == UNION {[1..n -> Servers] : n \in 0..MaxRefs}

\* The three builders are run on refs while the upstreams of S can be
\* reached; a resource or template build has no error to return.
BuildsMappings ==
    /\ fn.pc = "build"
    /\ fn' = [fn EXCEPT !.pc = "built",
                        !.out = [prompts |-> BuildPromptMappings(fn.in, fn.arg),
                                 resources |-> BuildResourceMappings(fn.in, fn.arg),
                                 templates |-> BuildResourceTemplateMappings(fn.in, fn.arg)]]
    /\ UNCHANGED <<svars, run, ag, tr, el, col, cp, ms>>

(***************************************************************************)
(* The config hook of the system server (pkg/servers/system/config.go)     *)
(* and types.AgentPermissions.                                             *)
(***************************************************************************)
\* allowedPermsToTools
allowedPermsToTools ==
    [perm \in {"bash", "read", "write", "edit", "glob", "grep", "todoWrite",
               "webFetch", "skills", "mcpServers", "askUserQuestion"} |->
        CASE perm = "write"      -> {"write", "edit"}
          [] perm = "skills"     -> {"getSkill"}
          [] perm = "mcpServers" -> {"addMCPServer", "removeMCPServer"}
          [] OTHER               -> {perm}]

\* AgentPermissions.permissions: the rules in the order the config gives
\* them, each a permission name (or *) and what it is set to.
MaxRules == 3
RuleNames == {"*", "write", "edit"}
Rules == {<<n, v>> : n \in RuleNames, v \in {"allow", "deny"}}
Permissions == UNION {[1..n -> Rules] : n \in 0..MaxRules}

\* The rules of permissions that apply to perm.
Matching(permissions, perm) ==
    {i \in DOMAIN permissions : permissions[i][1] = perm \/ permissions[i][1] = "*"}

\* A faulty IsAllowed: the first matching rule decides.
IsAllowedFirst(permissions, perm) ==
    LET matching == Matching(permissions, perm)
    IN  \/ matching = {}
        \/ permissions[CHOOSE i \in matching : \A j \in matching : i <= j][2] = "allow"

\* AgentPermissions.IsAllowed: the rules are walked backwards, the first
\* one met that names perm or * decides; without one perm is allowed.
IsAllowed(permissions, perm) ==
    LET matching == Matching(permissions, perm)
    IN  \/ matching = {}
        \/ permissions[CHOOSE i \in matching : \A j \in matching : j <= i][2] = "allow"

\* AgentPermissions.Allowed
Allowed(permissions, from) ==
    IF permissions = << >> THEN from
    ELSE {perm \in from : IsAllowed(permissions, perm)}

\* Server.config: the agent's Tools after the hook, as a set (the hook
\* appends in the order of a map iteration).
config(tools, permissions) ==
    tools \cup {"nanobot.system/" \o tool :
                   tool \in UNION {allowedPermsToTools[perm] :
                                     perm \in Allowed(permissions, DOMAIN allowedPermsToTools)}}

\* The hook is run for an agent with the tools fn.arg and the permissions
\* fn.in.
Configures ==
    /\ fn.pc = "config"
    /\ fn' = [fn EXCEPT !.pc = "configured", !.out = config(fn.arg, fn.in)]
    /\ UNCHANGED <<svars, run, ag, tr, el, col, cp, ms>>

(***************************************************************************)
(* Part 6: the audit log Collector (pkg/mcp/auditlogs/collector.go).       *)
(*                                                                         *)
(* The callers of CollectMCPAuditEntry, the goroutine of                   *)
(* runPersistenceLoop and the caller of Close run concurrently.  An entry  *)
(* is the number of the call that offered it.  A call of                   *)
(* CollectMCPAuditEntry is one step (it holds auditLock throughout); the   *)
(* loop is cut where it waits: at its select, at the lock, and while the   *)
(* batch is on its way to the sink.  Callers collect nothing once Close    *)
(* has been called, and Close is called once.                              *)
(***************************************************************************)
\* The batchSize NewCollector is given, and the number of entries offered.
batchSize == 2
MaxEntries == 5

\* The capacity append leaves a slice of capacity c with when it has to
\* hold needed elements: unchanged when they fit, doubled or more otherwise.
Grow(c, needed) == IF needed <= c THEN c ELSE max(needed, 2 * c)

\* NewCollector: an empty buffer of capacity 2*batchSize, open channels,
\* and the loop started.
NewCollector ==
    [buffer |-> <<>>, cap |-> 2 * batchSize,   \* auditBuffer and its capacity
     kickClosed |-> FALSE,                      \* kickAuditPersist is closed
     loop |-> "select",                         \* where runPersistenceLoop stands
     closed |-> FALSE,                          \* the loop's variable closed
     inflight |-> <<>>,                         \* buf, the batch being sent
     close |-> "idle",                          \* where Close stands
     sink |-> <<>>,                             \* the entries the sink has got
     offered |-> 0,                             \* calls of CollectMCPAuditEntry
     accepted |-> <<>>,                         \* the entries appended, in order
     finalFlush |-> FALSE,                      \* persistAuditLogs ran after Close
     requeued |-> FALSE]                        \* a failed batch met newer entries

\* done is closed when the loop returns.
DoneClosed == col.loop = "stopped"

\* CollectMCPAuditEntry: a response or a spammy entry is dropped; another
\* is appended, and once the buffer is half full the loop is kicked if it
\* is waiting at its select (the send is not blocking: default otherwise,
\* and also when the loop has not yet parked).  A kick received leaves
\* closed = true in the loop: it is the receive's second value.
CollectMCPAuditEntry ==
    /\ col.close = "idle"
    /\ col.offered < MaxEntries
    /\ \E kept \in BOOLEAN, parked \in BOOLEAN :
        LET entry == col.offered + 1
            buffer == Append(col.buffer, entry)
            appended == [col EXCEPT !.offered = entry,
                                    !.buffer = buffer,
                                    !.cap = Grow(col.cap, Len(buffer)),
                                    !.accepted = Append(@, entry)]
        IN  col' = IF ~kept THEN [col EXCEPT !.offered = entry]
                   ELSE IF Len(buffer) >= appended.cap \div 2 /\ col.loop = "select" /\ parked
                   THEN [appended EXCEPT !.loop = "persist", !.closed = TRUE]
                   ELSE appended
    /\ UNCHANGED <<svars, run, ag, tr, el, fn, cp, ms>>

\* runPersistenceLoop, case <-timer.C: closed keeps its value.
LoopTimer ==
    /\ col.loop = "select"
    /\ col' = [col EXCEPT !.loop = "persist"]
    /\ UNCHANGED <<svars, run, ag, tr, el, fn, cp, ms>>

\* runPersistenceLoop, case _, closed = <-c.kickAuditPersist on the closed
\* channel: the receive yields at once, and its second value is false.
LoopKickClosed ==
    /\ col.loop = "select"
    /\ col.kickClosed
    /\ col' = [col EXCEPT !.loop = "persist", !.closed = FALSE]
    /\ UNCHANGED <<svars, run, ag, tr, el, fn, cp, ms>>

\* persistAuditLogs up to the send: nothing to do for an empty buffer;
\* otherwise the buffer is taken as the batch and replaced by an empty one
\* of the same capacity.
persistAuditLogs ==
    /\ col.loop = "persist"
    /\ col' = IF col.buffer = <<>>
              THEN [col EXCEPT !.loop = "check", !.finalFlush = @ \/ col.kickClosed]
              ELSE [col EXCEPT !.loop = "sending", !.inflight = col.buffer,
                               !.buffer = <<>>,
                               !.finalFlush = @ \/ col.kickClosed]
    /\ UNCHANGED <<svars, run, ag, tr, el, fn, cp, ms>>

\* sendMCPAuditLogs returns nil: the sink has the batch.
SendSucceeds ==
    /\ col.loop = "sending"
    /\ col' = [col EXCEPT !.loop = "check", !.sink = @ \o col.inflight, !.inflight = <<>>]
    /\ UNCHANGED <<svars, run, ag, tr, el, fn, cp, ms>>

\* A faulty persistAuditLogs: the failed batch is put behind the entries
\* collected meanwhile.
SendFailsToTail ==
    /\ col.loop = "sending"
    /\ col' = [col EXCEPT !.loop = "check",
                          !.buffer = col.buffer \o col.inflight,
                          !.cap = Grow(col.cap, Len(col.inflight) + Len(col.buffer)),
                          !.inflight = <<>>,
                          !.requeued = @ \/ col.buffer # <<>>]
    /\ UNCHANGED <<svars, run, ag, tr, el, fn, cp, ms>>

\* sendMCPAuditLogs returns an error (the sink has got nothing):
\* c.auditBuffer = append(buf, c.auditBuffer...).
SendFails ==
    /\ col.loop = "sending"
    /\ col' = [col EXCEPT !.loop = "check",
                          !.buffer = col.inflight \o col.buffer,
                          !.cap = Grow(col.cap, Len(col.inflight) + Len(col.buffer)),
                          !.inflight = <<>>,
                          !.requeued = @ \/ col.buffer # <<>>]
    /\ UNCHANGED <<svars, run, ag, tr, el, fn, cp, ms>>

\* runPersistenceLoop after persistAuditLogs: it returns (and done is
\* closed) when closed is true, and resets the timer otherwise.
LoopCheck ==
    /\ col.loop = "check"
    /\ col' = [col EXCEPT !.loop = IF col.closed THEN "stopped" ELSE "select"]
    /\ UNCHANGED <<svars, run, ag, tr, el, fn, cp, ms>>

\* Collector.Close: close(c.kickAuditPersist).
Close ==
    /\ col.close = "idle"
    /\ col' = [col EXCEPT !.close = "waiting", !.kickClosed = TRUE]
    /\ UNCHANGED <<svars, run, ag, tr, el, fn, cp, ms>>

\* Collector.Close: <-c.done.
CloseReturns ==
    /\ col.close = "waiting"
    /\ DoneClosed
    /\ col' = [col EXCEPT !.close = "returned"]
    /\ UNCHANGED <<svars, run, ag, tr, el, fn, cp, ms>>

(***************************************************************************)
(* Part 7: conversation compaction (pkg/agents/compact.go).                *)
(*                                                                         *)
(* A message is its ID, whether its first item carries the                 *)
(* compaction-summary meta key, and the number of tokens the tokenizer     *)
(* counts for it: the estimate of a request is the sum of these numbers    *)
(* and of the tokens of the system prompt and the tools.                   *)
(***************************************************************************)
\* compactionThreshold, in thousandths, and defaultContextWindow.
compactionThreshold == 835
defaultContextWindow == 200000

\* The longest history and new input drawn.
MaxHistory == 2
MaxNewInput == 1

CompactMessage(id, summary, tokens) == [ID |-> id, summary |-> summary, tokens |-> tokens]

\* The token counts drawn: small ones, around the threshold of a window of
\* 10, and one beyond the threshold of the default window.
TokenCounts == {1, 5, 170000}

\* The histories drawn: messages 1, 2, ... of previous turns, any of them a
\* summary of an earlier compaction; and the new input: the messages of the
\* current request, which are no summaries.
Histories ==
    UNION {{[i \in 1..n |-> CompactMessage(i, f[i].summary, f[i].tokens)] :
                f \in [1..n -> [summary : BOOLEAN, tokens : TokenCounts]]} :
           n \in 0..MaxHistory}
NewInputs ==
    UNION {{[i \in 1..n |-> CompactMessage(100 + i, FALSE, f[i])] :
                f \in [1..n -> TokenCounts]} :
           n \in 0..MaxNewInput}

\* getContextWindowSize.
getContextWindowSize(configOverride) ==
    IF configOverride > 0 THEN configOverride ELSE defaultContextWindow

\* estimateTokens.
RECURSIVE estimateTokens(_)
estimateTokens(messages) ==
    IF messages = <<>> THEN 0
    ELSE Head(messages).tokens + estimateTokens(Tail(messages))

\* shouldCompact: int(float64(contextWindowSize) * compactionThreshold) is
\* the product in thousandths, rounded down.
shouldCompact(input, contextWindowSize) ==
    IF contextWindowSize <= 0 THEN FALSE
    ELSE estimateTokens(input) > (contextWindowSize * compactionThreshold) \div 1000

\* IsCompactionSummary.
IsCompactionSummary(m) == m.summary

\* splitHistoryAndNewInput: the input is cut at the first message that has
\* the ID of the first message of the current request.
splitHistoryAndNewInput(fullInput, currentRequestInput) ==
    LET at == {i \in DOMAIN fullInput : fullInput[i].ID = currentRequestInput[1].ID}
        first == CHOOSE i \in at : \A j \in at : i <= j
    IN  IF currentRequestInput = <<>> \/ at = {}
        THEN [history |-> fullInput, newInput |-> <<>>]
        ELSE [history |-> SubSeq(fullInput, 1, first - 1),
              newInput |-> SubSeq(fullInput, first, Len(fullInput))]

\* The message compact builds from the summary text.
summaryMessage == CompactMessage(0, TRUE, 1)

NoCompactResult == [err |-> "nil", compactedInput |-> <<>>, archivedMessages |-> <<>>]

\* A faulty compact: the summaries of earlier compactions stay in the input.
compactKeepsSummaries(input, currentRequestInput, previousCompacted, summary) ==
    LET split == splitHistoryAndNewInput(input, currentRequestInput)
    IN  IF summary = "error"
        THEN [NoCompactResult EXCEPT !.err = "compaction summarization failed"]
        ELSE IF summary = "empty"
        THEN [NoCompactResult EXCEPT !.err = "compaction produced empty summary"]
        ELSE [err |-> "nil",
              compactedInput |-> SelectSeq(split.history, IsCompactionSummary)
                                 \o <<summaryMessage>> \o split.newInput,
              archivedMessages |-> previousCompacted \o split.history]

\* Agents.compact; summary is what the completer answers to the
\* summarization request: an error, no text, or a text.
compact(input, currentRequestInput, previousCompacted, summary) ==
    LET split == splitHistoryAndNewInput(input, currentRequestInput)
    IN  IF summary = "error"
        THEN [NoCompactResult EXCEPT !.err = "compaction summarization failed"]
        ELSE IF summary = "empty"
        THEN [NoCompactResult EXCEPT !.err = "compaction produced empty summary"]
        ELSE [err |-> "nil",
              compactedInput |-> <<summaryMessage>> \o split.newInput,
              archivedMessages |-> previousCompacted \o split.history]

\* A turn about to compact: the populated input is the history followed by
\* the new input.
NewCompact(history, newInput, configOverride) ==
    [pc |-> "populated", input |-> history \o newInput, current |-> newInput,
     window |-> getContextWindowSize(configOverride), compacted |-> FALSE,
     populated |-> <<>>, archived |-> <<>>, err |-> "nil"]

\* Step 2 of a turn: the request is compacted when shouldCompact says so,
\* and the turn fails when compact does; the request then goes to the
\* completer.
CompactIfNeeded ==
    /\ cp.pc = "populated"
    /\ IF shouldCompact(cp.input, cp.window)
       THEN \E summary \in {"text", "empty", "error"} :
               LET r == compact(cp.input, cp.current, <<>>, summary)
               IN  cp' = IF r.err # "nil"
                         THEN [cp EXCEPT !.pc = "failed", !.err = r.err]
                         ELSE [cp EXCEPT !.pc = "complete", !.compacted = TRUE,
                                         !.populated = r.compactedInput,
                                         !.archived = r.archivedMessages]
       ELSE cp' = [cp EXCEPT !.pc = "complete", !.populated = cp.input]
    /\ UNCHANGED <<svars, run, ag, tr, el, fn, col, ms>>

(***************************************************************************)
(* Part 8: prompts/list and the selection of the current agent             *)
(* (pkg/server/server.go, pkg/sessiondata/sessiondata.go).                 *)
(***************************************************************************)
\* A config that publishes two entrypoints and one upstream.
cfgAgents ==
    [id |-> "agents", Env |-> NoEnvDefs, Agents |-> {},
     Publish |-> Publish("nb", "", FALSE, <<"s1">>, <<"a1", "a2">>)]

\* The names SetCurrentAgent is called with: none, the entrypoints and a
\* name that is no entrypoint.
AgentNames == {"", "a1", "a2", "ghost"}

PromptMessages == {Message(m, "", FALSE) : m \in {"prompts/list", "tools/list"}}

\* Data.PublishedPromptMappings line 652: the refs it builds.
PromptRefs(c) == getPublishedMCPServers(c) \o c.Publish.Prompts

\* The upstreams BuildPromptMappings has obtained a client for when it
\* returns: those of the refs before the first one that cannot be reached.
Contacted(refs, S) ==
    {refs[i] : i \in {j \in DOMAIN refs : \A k \in 1..j : refs[k] \in S}}

\* handleListPrompts: Refresh(false), then PublishedPromptMappings, which
\* finds no cached mapping and builds it; the reply lists the targets in
\* sorted key order.
handleListPrompts(t) ==
    /\ Handles(t, "prompts/list")
    /\ LET refreshed == Refresh(attrs, FALSE)
           refs == PromptRefs(attrs[ConfigSessionKey])
       IN  \E S \in Reachable(refreshed, refs) :
               LET r == BuildPromptMappings(refs, S)
                   a == AddClients(refreshed, Contacted(refs, S))
               IN  /\ live' = live \cup Contacted(refs, S)
                   /\ IF r.err # "nil"
                      THEN /\ attrs' = a
                           /\ Finish(t, ErrorReply(0, r.err))
                      ELSE /\ attrs' = Set(a, promptMappingKey, r.mappings)
                           /\ Finish(t, ListToolsReply(r.mappings))
    /\ UNCHANGED <<env, filters, dyn, force, msg, loc, call, nmsgs, notif>>

getEntrypoints(a) == SeqRange(a[ConfigSessionKey].Publish.Entrypoint)

\* Data.SetCurrentAgent on a session without parent: the error it returns
\* and the attribute map it leaves.
SetCurrentAgent(a, newAgent) ==
    IF newAgent = CurrentAgent(a)
    THEN [err |-> "nil", attrs |-> a]
    ELSE IF newAgent = ""
    THEN [err |-> "nil", attrs |-> Delete(Refresh(a, FALSE), CurrentAgentSessionKey)]
    ELSE IF newAgent \notin getEntrypoints(a)
    THEN [err |-> "not found in entrypoints", attrs |-> Refresh(a, FALSE)]
    ELSE [err |-> "nil", attrs |-> Set(Refresh(a, FALSE), CurrentAgentSessionKey, newAgent)]

\* SetCurrentAgent is called with newAgent on a session whose config has
\* been synced.
SetsCurrentAgent(newAgent) ==
    /\ Has(attrs, ConfigSessionKey)
    /\ attrs' = SetCurrentAgent(attrs, newAgent).attrs
    /\ UNCHANGED <<env, filters, live, dyn, force, pc, msg, loc, reply, call, nmsgs, notif>>

(***************************************************************************)
(* Part 9: Data.MatchResource over an agent's own refs, next to            *)
(* MatchPublishedResource (pkg/sessiondata/sessiondata.go).                *)
(***************************************************************************)
\* A config that publishes two entrypoints and no upstream: nothing is
\* served on the published surface.
cfgPrivate ==
    [id |-> "private", Env |-> NoEnvDefs, Agents |-> {},
     Publish |-> Publish("nb", "", FALSE, << >>, <<"a1", "a2">>)]

\* The refs of an agent's own MCP servers.
PrivateRefs == {<<"s2">>, <<"s1", "s2">>, <<"s2", "s1">>}

\* strings.Join
RECURSIVE Join(_, _)
Join(elems, sep) ==
    IF elems = << >> THEN ""
    ELSE IF Len(elems) = 1 THEN elems[1]
    ELSE elems[1] \o sep \o Join(Tail(elems), sep)

\* client.Session.InitializeResult.Capabilities.Resources != nil: an
\* upstream that lists resources or templates declares the capability.
SupportsResources(s) == UpstreamResources(s) # {} \/ UpstreamTemplates(s) # {}

\* Data.filterSupportingResources when every client is obtained: all of
\* refs once more for each ref whose upstream supports resources.
RECURSIVE filterSupportingResourcesFrom(_, _)
filterSupportingResourcesFrom(rest, refs) ==
    IF rest = << >> THEN << >>
    ELSE (IF SupportsResources(Head(rest)) THEN refs ELSE << >>)
         \o filterSupportingResourcesFrom(Tail(rest), refs)

filterSupportingResources(refs) == filterSupportingResourcesFrom(refs, refs)

\* What a match returns: found or not, the server, the resource name and
\* whether it was taken from the memo.
Outcome(ok, server, name, memo) ==
    [ok |-> ok, server |-> server, name |-> name, memo |-> memo]

\* Data.MatchResource with the upstreams S reachable: the outcome and the
\* attribute map it leaves.
MatchResource(a, uri, refs, S) ==
    LET keySuffix == ":" \o Join(refs, ",")
    IN  IF checkResourceMatch(a, uri, keySuffix)
        THEN Match(TRUE, MatchCache(a)[MatchKey(a, uri, keySuffix)].m,
                   MatchCache(a)[MatchKey(a, uri, keySuffix)].t, a)
        ELSE IF \E i \in DOMAIN refs : refs[i] \notin S
        THEN Match(FALSE, "", "", AddClients(a, Contacted(refs, S)))
        ELSE LET a1 == AddClients(a, S \cap SeqRange(refs))
                 filtered == filterSupportingResources(refs)
                 templates == BuildResourceTemplateMappings(filtered, S)
                 hits == matchResourceURITemplate(templates, uri)
                 resourceMappings == BuildResourceMappings(filtered, S)
             IN  IF Len(filtered) = 1
                 THEN Match(TRUE, filtered[1], uri, a1)
                 ELSE IF hits # {}
                 THEN LET k == CHOOSE k \in hits : TRUE
                      IN  Match(TRUE, templates[k], uri,
                                cacheResourceMatch(a1, uri, templates[k], uri))
                 ELSE IF uri \in DOMAIN resourceMappings
                 THEN Match(TRUE, resourceMappings[uri], uri,
                            cacheResourceMatch(a1, uri, resourceMappings[uri], uri))
                 ELSE Match(FALSE, "", "", a1)

\* An agent resolves uri over its own refs.
MatchesResource ==
    /\ Has(attrs, ConfigSessionKey)
    /\ \E uri \in URIs, refs \in PrivateRefs :
        \E S \in Reachable(attrs, refs) :
            LET m == MatchResource(attrs, uri, refs, S)
            IN  /\ attrs' = m.attrs
                /\ live' = live \cup CachedClients(m.attrs)
                /\ fn' = [NewFn("MatchResource", uri, refs) EXCEPT
                            !.out = Outcome(m.ok, m.server, m.name,
                                            checkResourceMatch(attrs, uri,
                                                ":" \o Join(refs, ",")))]
    /\ UNCHANGED <<env, filters, dyn, force, pc, msg, loc, reply, call, nmsgs, notif,
                   run, ag, tr, el, col, cp, ms>>

\* handleReadResource line 126: uri is resolved on the published surface.
MatchesPublishedResource ==
    /\ Has(attrs, ConfigSessionKey)
    /\ \E uri \in URIs :
        \E S \in Reachable(attrs, MatchRefs(attrs)) :
            LET m == MatchPublishedResource(attrs, uri, S)
            IN  /\ attrs' = m.attrs
                /\ live' = live \cup CachedClients(m.attrs)
                /\ fn' = [NewFn("MatchPublishedResource", uri, << >>) EXCEPT
                            !.out = Outcome(m.ok, m.server, m.name,
                                            checkResourceMatch(attrs, uri, ""))]
    /\ UNCHANGED <<env, filters, dyn, force, pc, msg, loc, reply, call, nmsgs, notif,
                   run, ag, tr, el, col, cp, ms>>

\* The session without its match memo, cached template mapping and
\* clients: what the published surface serves is computed from it.
Unmemoised(a) ==
    DeleteAll(a, {resourceTemplateMappingCacheKey, resourceTemplateMappingKey}
                 \cup ClientKeys)

\* The published mappings, with the upstreams S reachable, resolve uri to
\* the server and name of outcome o.
ServedAs(a, uri, o) ==
    \E S \in SUBSET Servers :
        LET m == MatchPublishedResource(Unmemoised(a), uri, S)
        IN  m.ok /\ m.server = o.server /\ m.name = o.name

(***************************************************************************)
(* Part 10: the meta server (pkg/servers/meta/meta.go).  One Server is     *)
(* made by NewServer and serves every session; each session's messages     *)
(* reach it through OnMessage.                                             *)
(***************************************************************************)
MetaSessions == {"c1", "c2", "c3"}

\* The tools NewServer registers.
MetaTools == {"list_chats", "update_chat", "list_agents"}

\* The tool names a client may call.
MetaCalls == MetaTools \cup {"bogus"}

MetaReply(kind, tools, capabilities) ==
    [kind |-> kind, tools |-> tools, capabilities |-> capabilities]
NoMetaReply == MetaReply("none", {}, FALSE)

\* NewServer: the registered tools, no tracked session.  ui tells for each
\* session whether its session-init metadata marks it as a UI session.
NewServer(ui) ==
    [pc |-> "serving", tools |-> MetaTools, ui |-> ui, tracked |-> {},
     reply |-> [c \in MetaSessions |-> NoMetaReply]]

\* Server.initialize for session c: a session that is no UI session gets a
\* result without capabilities, and s.tools is replaced by an empty set of
\* tools; a UI session is tracked and gets the tools and resources
\* capabilities.
initialize(c) ==
    /\ ms.pc = "serving"
    /\ ms' = IF ~ms.ui[c]
             THEN [ms EXCEPT !.tools = {},
                             !.reply[c] = MetaReply("initialized", {}, FALSE)]
             ELSE [ms EXCEPT !.tracked = @ \cup {c},
                             !.reply[c] = MetaReply("initialized", {}, TRUE)]
    /\ UNCHANGED <<svars, run, ag, tr, el, fn, col, cp>>

\* The tools that tools/list and tools/call serve to session c when the
\* server is m: those of the one s.tools, whatever the session.
ToolsServed(m, c) == m.tools

\* OnMessage, tools/list: s.tools.List answers with the server's tools.
toolsList(c) ==
    /\ ms.pc = "serving"
    /\ ms' = [ms EXCEPT !.reply[c] = MetaReply("tools", ToolsServed(ms, c), FALSE)]
    /\ UNCHANGED <<svars, run, ag, tr, el, fn, col, cp>>

\* OnMessage, tools/call: s.tools.Call runs the tool of that name if the
\* server has it.
toolsCall(c, name) ==
    /\ ms.pc = "serving"
    /\ ms' = [ms EXCEPT !.reply[c] =
                 IF name \in ToolsServed(ms, c) THEN MetaReply("called", {name}, FALSE)
                 ELSE MetaReply("error", {}, FALSE)]
    /\ UNCHANGED <<svars, run, ag, tr, el, fn, col, cp>>

\* The collector and compaction while another part is under check.
NoCollector == [pc |-> "none"]
NoCompact == [pc |-> "none"]
NoMeta == [pc |-> "none"]

Parked ==
    /\ run = NewRun /\ ag = NoAgent /\ tr = NoTrunc /\ el = NoElicit
    /\ fn = NoFn /\ col = NoCollector /\ cp = NoCompact /\ ms = NoMeta
Rest == UNCHANGED <<run, ag, tr, el, ovars>>

(***************************************************************************)
(* SpecInit: initialize, environment reconciliation and method dispatch.   *)
(***************************************************************************)
InitInit == InitSession(InitEnvs, {FALSE}) /\ Parked

\* The client of SpecInit awaits each response before it sends the next
\* request.
Awaited(t) == \A u \in Tasks \ {t} : pc[u] \in {"idle", "done"}

\* The client of SpecInit numbers its requests in the order it sends them.
Numbered(M) == {[m EXCEPT !.id = nmsgs + 1] : m \in M}

NextInit ==
    \E t \in Tasks :
        \/ Awaited(t) /\ Receive(t, Numbered(InitMessages)) /\ Rest
        \/ Complete(t) /\ Rest
        \/ Sync(t, Configs) /\ Rest
        \/ SyncFails(t) /\ Rest
        \/ MethodNotFound(t) /\ Rest
        \/ handlePing(t) /\ Rest
        \/ handleInitializeHookFails(t) /\ Rest
        \/ handleInitializeMissingEnv(t) /\ Rest
        \/ handleInitializeIntroFails(t) /\ Rest
        \/ handleInitialize(t) /\ Rest
        \/ handleInitializeProxy(t) /\ Rest
        \/ handleInitializeProxyFails(t) /\ Rest
        \/ handleListTools(t) /\ Rest
        \/ ToolMappingBuilt(t) /\ Rest
        \/ ToolMappingFails(t) /\ Rest

SpecInit == InitInit /\ [][NextInit]_vars

(***************************************************************************)
(* SpecTools: tools/list and tools/call while the config and the           *)
(* upstream's tools change.                                                *)
(***************************************************************************)
InitTools == InitSession({FullEnv}, BOOLEAN) /\ Parked

NextTools ==
    \/ \E t \in Tasks :
        \/ Receive(t, ToolMessages) /\ Rest
        \/ Complete(t) /\ Rest
        \/ Sync(t, {cfgProxy, cfgEnv}) /\ Rest
        \/ SyncFails(t) /\ Rest
        \/ BadParams(t) /\ Rest
        \/ handleListTools(t) /\ Rest
        \/ handleCallTool(t) /\ Rest
        \/ ToolMappingBuilt(t) /\ Rest
        \/ ToolMappingFails(t) /\ Rest
        \/ handleCallToolDispatch(t) /\ Rest
    \/ UpstreamChanges /\ Rest

SpecTools == InitTools /\ [][NextTools]_vars

(***************************************************************************)
(* SpecSubs: resource subscriptions and upstream notifications.            *)
(***************************************************************************)
InitSubs == InitSession({FullEnv}, {FALSE}) /\ Parked

NextSubs ==
    \/ \E t \in Tasks :
        \/ Receive(t, SubscriptionMessages) /\ Rest
        \/ Complete(t) /\ Rest
        \/ Sync(t, {cfgProxy, cfgEnv}) /\ Rest
        \/ SyncFails(t) /\ Rest
        \/ handleResourcesSubscribe(t) /\ Rest
        \/ SubscribeToResources(t) /\ Rest
        \/ SubscribeNoMatch(t) /\ Rest
        \/ SubscribeFails(t) /\ Rest
        \/ SubscribeNoClient(t) /\ Rest
        \/ handleResourcesUnsubscribe(t) /\ Rest
        \/ UnsubscribeFromResources(t) /\ Rest
        \/ UnsubscribeFails(t) /\ Rest
    \/ UpstreamNotifies /\ Rest
    \/ ClientReadsNotification /\ Rest

SpecSubs == InitSubs /\ [][NextSubs]_vars

(***************************************************************************)
(* SpecPrompts: prompts/list and tools/list while the current agent is     *)
(* selected.                                                               *)
(***************************************************************************)
InitPrompts == InitSession({FullEnv}, {FALSE}) /\ Parked

NextPrompts ==
    \/ \E t \in Tasks :
        \/ Receive(t, PromptMessages) /\ Rest
        \/ Complete(t) /\ Rest
        \/ Sync(t, {cfgAgents}) /\ Rest
        \/ SyncFails(t) /\ Rest
        \/ handleListTools(t) /\ Rest
        \/ ToolMappingBuilt(t) /\ Rest
        \/ ToolMappingFails(t) /\ Rest
        \/ handleListPrompts(t) /\ Rest
    \/ \E newAgent \in AgentNames : SetsCurrentAgent(newAgent) /\ Rest

SpecPrompts == InitPrompts /\ [][NextPrompts]_vars

(***************************************************************************)
(* SpecMatch: resources resolved over agents' own refs and on the          *)
(* published surface of one session, while the current agent is selected.  *)
(***************************************************************************)
\* The session after the first Sync of a connection.
InitMatch ==
    /\ \E c \in {cfgPrivate, cfgAgents} :
        attrs = SyncAttrs([k \in {} |-> TRUE], FullEnv, c)
    /\ env = FullEnv
    /\ filters = 1
    /\ live = {}
    /\ dyn = FALSE
    /\ force = FALSE
    /\ pc = [t \in Tasks |-> "idle"]
    /\ msg = [t \in Tasks |-> NoMessage]
    /\ loc = [t \in Tasks |-> NoLocals]
    /\ reply = [t \in Tasks |-> NoReply]
    /\ call = [t \in Tasks |-> NoCall]
    /\ nmsgs = 0
    /\ notif = NoNotification
    /\ run = NewRun /\ ag = NoAgent /\ tr = NoTrunc /\ el = NoElicit
    /\ fn = NoFn /\ col = NoCollector /\ cp = NoCompact /\ ms = NoMeta

NextMatch ==
    \/ MatchesResource
    \/ MatchesPublishedResource
    \/ \E newAgent \in AgentNames : SetsCurrentAgent(newAgent) /\ Rest

SpecMatch == InitMatch /\ [][NextMatch]_vars

(***************************************************************************)
(* SpecMeta: the meta server and its sessions.                             *)
(***************************************************************************)
InitMeta ==
    /\ InitSession({FullEnv}, {FALSE})
    /\ run = NewRun /\ ag = NoAgent /\ tr = NoTrunc /\ el = NoElicit
    /\ fn = NoFn /\ col = NoCollector /\ cp = NoCompact
    /\ ms \in {NewServer(ui) : ui \in [MetaSessions -> BOOLEAN]}

NextMeta ==
    \E c \in MetaSessions :
        \/ initialize(c)
        \/ toolsList(c)
        \/ \E name \in MetaCalls : toolsCall(c, name)

SpecMeta == InitMeta /\ [][NextMeta]_vars

(***************************************************************************)
(* SpecAgent: one run of the agent loop, which the client may cancel.      *)
(***************************************************************************)
InitAgent ==
    /\ InitSession({FullEnv}, {FALSE})
    /\ run = NewRun
    /\ ag \in {NewAgent(token) : token \in BOOLEAN}
    /\ tr = NoTrunc
    /\ el = NoElicit
    /\ fn = NoFn /\ col = NoCollector /\ cp = NoCompact /\ ms = NoMeta

NextAgent ==
    \/ Populate
    \/ TurnLimitExceeded
    \/ CompleterReturns
    \/ ToolCallsSkip
    \/ ToolCallsUnmapped
    \/ InvokeBegin
    \/ InvokeFails
    \/ InvokeReturns
    \/ ToolCallsReturns
    \/ handleCancelled
    \/ SessionCloses

SpecAgent == InitAgent /\ [][NextAgent]_vars


(***************************************************************************)
(* SpecElicit: the command-line client answers the server's elicitations.  *)
(***************************************************************************)
InitElicit ==
    /\ InitSession({FullEnv}, {FALSE})
    /\ run = NewRun
    /\ ag = NoAgent
    /\ tr = NoTrunc
    /\ el \in {NewElicit(auto) : auto \in BOOLEAN}
    /\ fn = NoFn /\ col = NoCollector /\ cp = NoCompact /\ ms = NoMeta

NextElicit == Elicit \/ Answers

SpecElicit == InitElicit /\ [][NextElicit]_vars

(***************************************************************************)
(* SpecTruncate: truncateToolResult applied to one tool result.            *)
(***************************************************************************)
InitTruncate ==
    /\ InitSession({FullEnv}, {FALSE})
    /\ run = NewRun
    /\ ag = NoAgent
    /\ tr \in {NewTrunc(t, m) : t \in TruncTools, m \in Messages}
    /\ el = NoElicit
    /\ fn = NoFn /\ col = NoCollector /\ cp = NoCompact /\ ms = NoMeta

NextTruncate == Truncates

SpecTruncate == InitTruncate /\ [][NextTruncate]_vars

\* The specification of the pure functions.
InitPure ==
    /\ InitSession({FullEnv}, {FALSE})
    /\ run = NewRun /\ ag = NoAgent /\ tr = NoTrunc /\ el = NoElicit
    /\ col = NoCollector /\ cp = NoCompact /\ ms = NoMeta
    /\ fn \in {NewFn("sanitize", x, <<>>) : x \in Components}
             \cup {NewFn("ref", ref, name) : ref \in Refs, name \in RefNames}
             \cup {NewFn("webFetch", t, <<>>) : t \in TimeoutParams}
             \cup {NewFn("bash", [t EXCEPT !.v = t.v * 1000], <<>>) : t \in TimeoutParams}
             \cup {NewFn("build", refs, S) : refs \in MappingRefs, S \in SUBSET Servers}
             \cup {NewFn("config", p, tools) : p \in Permissions, tools \in {{}, {"s1/own"}}}

NextPure ==
    Sanitizes \/ PublishesName \/ WebFetch \/ Bash \/ BuildsMappings \/ Configures

SpecPure == InitPure /\ [][NextPure]_vars

\* The specification of compaction.
InitCompact ==
    /\ InitSession({FullEnv}, {FALSE})
    /\ run = NewRun /\ ag = NoAgent /\ tr = NoTrunc /\ el = NoElicit
    /\ fn = NoFn /\ col = NoCollector /\ ms = NoMeta
    /\ cp \in {NewCompact(h, n, w) : h \in Histories, n \in NewInputs, w \in {0, 10}}

NextCompact == CompactIfNeeded

SpecCompact == InitCompact /\ [][NextCompact]_vars

\* The specification of the collector, and the one for liveness: the
\* loop's goroutine and the caller of Close are scheduled, the timer fires,
\* and a send returns.
InitCollector ==
    /\ InitSession({FullEnv}, {FALSE})
    /\ run = NewRun /\ ag = NoAgent /\ tr = NoTrunc /\ el = NoElicit
    /\ fn = NoFn /\ cp = NoCompact /\ ms = NoMeta
    /\ col = NewCollector

NextCollector ==
    \/ CollectMCPAuditEntry
    \/ LoopTimer
    \/ LoopKickClosed
    \/ persistAuditLogs
    \/ SendSucceeds
    \/ SendFails
    \/ LoopCheck
    \/ Close
    \/ CloseReturns

SpecCollector == InitCollector /\ [][NextCollector]_vars

SpecCollectorLive ==
    /\ SpecCollector
    /\ WF_vars(LoopTimer \/ LoopKickClosed)
    /\ WF_vars(persistAuditLogs)
    /\ WF_vars(SendSucceeds \/ SendFails)
    /\ WF_vars(LoopCheck)
    /\ WF_vars(CloseReturns)

\* The same with a sink that eventually accepts a batch when batches keep
\* being sent to it.
SpecCollectorDrains == SpecCollectorLive /\ SF_vars(SendSucceeds)

(***************************************************************************)
(* Properties of Sync and Refresh.                                         *)
(***************************************************************************)
\* C1: when the handling of an inbound message starts and the hash of
\* {config, env} differs from the stored one, every clients/ attribute is
\* closed and removed, every mapping cache (toolMapping, promptMapping,
\* resourceMapping, resourceTemplateMapping, resourceTemplateMappingCache) is
\* deleted before the handler runs, and the new hash is stored.
C1_SyncDropsEveryCache ==
    [][\A t \in Tasks :
        (/\ pc[t] = "sync"
         /\ pc'[t] = "dispatch"
         /\ HashChanged(attrs, attrs'[ConfigSessionKey], env))
        => /\ ClientKeys \cap DOMAIN attrs' = {}
           /\ live' \cap CachedClients(attrs) = {}
           /\ {toolMappingKey, promptMappingKey, resourceMappingKey,
               resourceTemplateMappingKey, resourceTemplateMappingCacheKey}
                  \cap DOMAIN attrs' = {}
           /\ attrs'[ConfigHashSessionKey] = Hash(attrs'[ConfigSessionKey], env)]_vars

(***************************************************************************)
(* Properties of tools/call and tools/list.                                *)
(***************************************************************************)
\* C2: a tools/call whose name is absent from the tool mapping refreshes the
\* session exactly once and looks the name up again; when the name is still
\* absent the call fails with "tool not found" and nothing is dispatched to an
\* upstream; what is dispatched is the tool that was asked for.
C2_RefreshOnceThenNotFound ==
    \A t \in Tasks :
        /\ loc[t].refreshes <= 1
        /\ loc[t].lookups = 2 => loc[t].refreshes = 1
        /\ (pc[t] = "done" /\ reply[t].err = "tool not found")
            => /\ loc[t].lookups = 2
               /\ loc[t].refreshes = 1
               /\ call[t] = NoCall
        /\ call[t] # NoCall
            => /\ call[t].target = msg[t].arg
               /\ reply[t].err # "tool not found"

\* A tools/call has failed with "tool not found" after its one refresh.
C2_NotFoundAfterRefresh ==
    \E t \in Tasks :
        /\ pc[t] = "done"
        /\ msg[t].method = "tools/call"
        /\ reply[t].err = "tool not found"
        /\ loc[t].refreshes = 1
        /\ call[t] = NoCall

\* C3: after a refresh every later tools/list response reflects the
\* post-refresh mapping only: a tools/list answered from the session while no
\* other handler runs lists the tools of a mapping built from the config in
\* force.
C3_ListReflectsCurrentConfig ==
    [][\A t \in Tasks :
        (/\ pc[t] = "dispatch"
         /\ pc'[t] = "done"
         /\ msg[t].method = "tools/list"
         /\ reply'[t].kind = "result"
         /\ \A u \in Tasks \ {t} : pc[u] \in {"idle", "done"})
        => \E S \in SUBSET Servers, d \in BOOLEAN :
              reply'[t].tools =
                  DOMAIN BuildToolMappings(ToolRefs(attrs[ConfigSessionKey]), S, d)]_vars

(***************************************************************************)
(* Properties of resource subscriptions.                                   *)
(***************************************************************************)
\* C4: a notifications/resources/updated for URI u is never delivered to a
\* session whose subscription set does not contain u.
C4_OnlySubscribedUpdatesDelivered ==
    [][\A u \in URIs :
        (notif = NoNotification /\ notif' = Notification(u, TRUE))
        => u \in Subscriptions(attrs)]_vars

\* An update for a URI the session has not subscribed to was dropped, while
\* the session holds a subscription to another URI.
C4_UpdateDropped ==
    /\ notif.p \in URIs
    /\ ~notif.delivered
    /\ notif.p \notin Subscriptions(attrs)
    /\ Subscriptions(attrs) # {}

\* C5 as stated: every successful resources/subscribe for uri adds uri to the
\* set and calls SubscribeResource for it on the owning upstream, every
\* successful resources/unsubscribe removes it and calls UnsubscribeResource.
C5_EverySubscribeCallsUpstream ==
    \A t \in Tasks :
        (pc[t] = "done" /\ reply[t].kind = "result")
        => /\ msg[t].method = "resources/subscribe"
               => call[t].op = "resources/subscribe"
           /\ msg[t].method = "resources/unsubscribe"
               => call[t].op = "resources/unsubscribe"

\* C5: a successful resources/subscribe for a uri that the set it read did
\* not hold stores that set plus uri and calls SubscribeResource for it on
\* the owning upstream; one for a uri already in the set stores the set as it
\* is and calls no upstream.  resources/unsubscribe is symmetric.  So an
\* unsubscribe that reads what a subscribe of a new uri stored, and is the
\* last to store, leaves the set the subscribe read.
C5_SubscribeUnsubscribe ==
    /\ [][\A t \in Tasks :
            (/\ pc[t] \in {"dispatch", "subscribe", "unsubscribe"}
             /\ pc'[t] = "done"
             /\ reply'[t].kind = "result")
            => LET uri == msg[t].arg
                   read == loc'[t].subs
               IN  /\ msg[t].method = "resources/subscribe"
                       => /\ Subscriptions(attrs') = read \cup {uri}
                          /\ uri \in read => call'[t] = NoCall
                          /\ uri \notin read
                              => /\ call'[t].op = "resources/subscribe"
                                 /\ call'[t].target = uri
                                 /\ \/ uri \in UpstreamResources(call'[t].server)
                                    \/ \E tpl \in UpstreamTemplates(call'[t].server) :
                                          TemplateMatches(tpl, uri)
                   /\ msg[t].method = "resources/unsubscribe"
                       => /\ Subscriptions(attrs') = read \ {uri}
                          /\ uri \notin read => call'[t] = NoCall
                          /\ uri \in read
                              => /\ call'[t].op = "resources/unsubscribe"
                                 /\ call'[t].target = uri
                                 /\ \/ uri \in UpstreamResources(call'[t].server)
                                    \/ \E tpl \in UpstreamTemplates(call'[t].server) :
                                          TemplateMatches(tpl, uri)]_vars
    /\ [](\A s \in Tasks, u \in Tasks :
            (/\ pc[s] = "done" /\ pc[u] = "done"
             /\ msg[s].method = "resources/subscribe"
             /\ msg[u].method = "resources/unsubscribe"
             /\ msg[s].arg = msg[u].arg
             /\ call[s].op = "resources/subscribe"
             /\ call[u].op = "resources/unsubscribe"
             /\ reply[s].kind = "result" /\ reply[u].kind = "result"
             /\ loc[u].subs = loc[s].subs \cup {msg[s].arg}
             /\ msg[u].arg \notin Subscriptions(attrs))
            => Subscriptions(attrs) = loc[s].subs)

\* A subscribe of a new uri went to the upstream, an unsubscribe of the same
\* uri read the set it stored and went to the upstream too; the set is the
\* one the subscribe read, and it holds another uri.
C5_RoundTrip ==
    \E s \in Tasks, u \in Tasks :
        /\ pc[s] = "done" /\ pc[u] = "done"
        /\ msg[s].method = "resources/subscribe"
        /\ msg[u].method = "resources/unsubscribe"
        /\ msg[s].arg = msg[u].arg
        /\ call[s].op = "resources/subscribe"
        /\ call[u].op = "resources/unsubscribe"
        /\ reply[s].kind = "result" /\ reply[u].kind = "result"
        /\ loc[u].subs = loc[s].subs \cup {msg[s].arg}
        /\ loc[s].subs # {}
        /\ Subscriptions(attrs) = loc[s].subs

C7_MissingIsNoValueInMap ==
    [][\A t \in Tasks :
        (pc[t] = "dispatch" /\ msg[t].method = "initialize" /\ pc'[t] # "dispatch")
        => LET c == attrs[ConfigSessionKey]
               noValue == {k \in DOMAIN c.Env :
                              /\ ~c.Env[k].Optional
                              /\ (k \notin DOMAIN env \/ env[k] = "")}
           IN  /\ reply'[t].code = InvalidParamsCode => reply'[t].missing = noValue
               /\ noValue = {} => reply'[t].code # InvalidParamsCode
               /\ noValue # {} => (pc'[t] = "done" /\ reply'[t].kind = "error")]_vars

\* C7: initialize fails with code -32602 and a missingEnv that lists exactly
\* the declared non-optional variables that have no non-empty value in the
\* environment map and, when declared useBearerToken and absent from the map,
\* no non-empty http:bearer-token either; it fails whenever there is such a
\* variable unless an earlier step failed, and reconciliation does not fail it
\* when there is none.
C7_MissingEnv ==
    [][\A t \in Tasks :
        (pc[t] = "dispatch" /\ msg[t].method = "initialize" /\ pc'[t] # "dispatch")
        => LET c == attrs[ConfigSessionKey]
               bearer == BearerKey \in DOMAIN env /\ env[BearerKey] # ""
               unsatisfied == {k \in DOMAIN c.Env :
                                  /\ ~c.Env[k].Optional
                                  /\ ~(k \in DOMAIN env /\ env[k] # "")
                                  /\ ~(k \notin DOMAIN env /\ c.Env[k].UseBearerToken
                                         /\ bearer)}
           IN  /\ reply'[t].code = InvalidParamsCode
                   => /\ reply'[t].kind = "error"
                      /\ reply'[t].missing = unsatisfied
               /\ unsatisfied = {} => reply'[t].code # InvalidParamsCode
               /\ unsatisfied # {} => (pc'[t] = "done" /\ reply'[t].kind = "error")]_vars

\* initialize failed for K1 alone although the map holds no K2: the bearer
\* token stands in for K2.
C7_BearerStandsIn ==
    \E t \in Tasks :
        /\ pc[t] = "done"
        /\ msg[t].method = "initialize"
        /\ reply[t].code = InvalidParamsCode
        /\ reply[t].missing = {"K1"}
        /\ BearerKey \in DOMAIN env

\* C8: after an initialize that failed for missing environment, a tools/list
\* sent next on that session, the config still wanting the variables, does
\* not return the configured tools.
C8_NoToolsAfterFailedInitialize ==
    \A i \in Tasks, l \in Tasks :
        (/\ pc[i] = "done"
         /\ msg[i].method = "initialize"
         /\ reply[i].code = InvalidParamsCode
         /\ pc[l] = "done"
         /\ msg[l].method = "tools/list"
         /\ msg[l].id = msg[i].id + 1
         /\ reconcileMissing(env, attrs[ConfigSessionKey]) # {})
        => ~(reply[l].kind = "result" /\ reply[l].tools # {})

\* C9 as stated: under a config that publishes exactly one MCP server and no
\* entrypoint, tools, prompts, resources or resource templates, the result of
\* initialize is the upstream's InitializeResult unchanged.
C9_OneServerIsProxied ==
    [][\A t \in Tasks :
        (/\ pc[t] \in {"dispatch", "initClient"}
         /\ msg[t].method = "initialize"
         /\ pc'[t] = "done"
         /\ reply'[t].kind = "result")
        => LET p == (IF pc[t] = "initClient" THEN loc[t].cfg
                     ELSE attrs[ConfigSessionKey]).Publish
           IN  (/\ Len(p.MCPServers) = 1
                /\ p.Entrypoint = << >>
                /\ p.Tools = << >> /\ p.Prompts = << >>
                /\ p.Resources = << >> /\ p.ResourceTemplates = << >>)
               => reply'[t].init = UpstreamInit(p.MCPServers[1])]_vars

\* C9: under a config that publishes exactly one MCP server, no entrypoint,
\* tools, prompts, resources or resource templates and no instructions, the
\* result of initialize is the upstream's InitializeResult unchanged, never a
\* synthesized one.
C9_PlainOneServerIsProxied ==
    [][\A t \in Tasks :
        (/\ pc[t] \in {"dispatch", "initClient"}
         /\ msg[t].method = "initialize"
         /\ pc'[t] = "done"
         /\ reply'[t].kind = "result")
        => LET p == (IF pc[t] = "initClient" THEN loc[t].cfg
                     ELSE attrs[ConfigSessionKey]).Publish
           IN  (/\ Len(p.MCPServers) = 1
                /\ p.Entrypoint = << >>
                /\ p.Tools = << >> /\ p.Prompts = << >>
                /\ p.Resources = << >> /\ p.ResourceTemplates = << >>
                /\ p.Instructions = "")
               => /\ reply'[t].init = UpstreamInit(p.MCPServers[1])
                  /\ reply'[t].init # SynthesizedInit(attrs[ConfigSessionKey])]_vars

\* initialize was answered with the InitializeResult of upstream s1.
C9_UpstreamResultReturned ==
    \E t \in Tasks :
        /\ pc[t] = "done"
        /\ msg[t].method = "initialize"
        /\ reply[t].kind = "result"
        /\ reply[t].init = UpstreamInit("s1")

\* C10 as stated: every message whose method matches no registered handler is
\* answered with a MethodNotFound error.
C10_UnknownMethodAlwaysNotFound ==
    \A t \in Tasks :
        (pc[t] = "done" /\ msg[t].method \notin Registered)
        => (reply[t].kind = "error" /\ reply[t].code = MethodNotFoundCode)

\* C10: once Sync has succeeded, a message whose method matches no registered
\* handler is answered with a MethodNotFound error and the session is left as
\* it was; the request sent next is handled: a ping is answered with a result
\* unless the config fails to load.
C10_UnknownMethod ==
    /\ [][\A t \in Tasks :
            (pc[t] = "dispatch" /\ msg[t].method \notin Registered /\ pc'[t] # "dispatch")
            => /\ pc'[t] = "done"
               /\ reply'[t].kind = "error"
               /\ reply'[t].code = MethodNotFoundCode
               /\ UNCHANGED <<attrs, env, filters, live>>]_vars
    /\ [](\A t \in Tasks, u \in Tasks :
            (/\ pc[t] = "done"
             /\ reply[t].code = MethodNotFoundCode
             /\ pc[u] = "done"
             /\ msg[u].method = "ping"
             /\ msg[u].id = msg[t].id + 1)
            => \/ reply[u] = Result
               \/ reply[u].err = "failed to load config")

\* An unknown method was answered with MethodNotFound and the ping sent next
\* was answered with a result.
C10_PingAfterUnknownMethod ==
    \E t \in Tasks, u \in Tasks :
        /\ pc[t] = "done"
        /\ msg[t].method \notin Registered
        /\ reply[t].code = MethodNotFoundCode
        /\ pc[u] = "done"
        /\ msg[u].method = "ping"
        /\ msg[u].id = msg[t].id + 1
        /\ reply[u] = Result

(***************************************************************************)
(* Properties of resource matching.                                        *)
(***************************************************************************)
\* C11 as stated: MatchPublishedResource(uri) resolves to the server of the
\* exact entry for uri in the resource mappings when there is one, otherwise
\* to the first resource-template mapping in sorted key order whose regex
\* matches uri, and fails when there is neither.
C11_MatchFollowsMappings ==
    Has(attrs, ConfigSessionKey) =>
        \A uri \in URIs \cup {"u3"}, S \in Reachable(attrs, MatchRefs(attrs)) :
            LET r == MatchPublishedResource(attrs, uri, S)
                resources == BuildResourceMappings(ResourceRefs(attrs[ConfigSessionKey]), S)
                templates == PublishedResourceTemplateMappings(AddClients(attrs, S), S)
                matching == {i \in DOMAIN SortedTemplateKeys :
                                /\ SortedTemplateKeys[i] \in DOMAIN templates
                                /\ TemplateMatches(SortedTemplateKeys[i], uri)}
            IN  IF uri \in DOMAIN resources
                THEN r.ok /\ r.server = resources[uri] /\ r.name = uri
                ELSE IF matching # {}
                THEN /\ r.ok
                     /\ \E i \in matching :
                          /\ \A j \in matching : i <= j
                          /\ r.server = templates[SortedTemplateKeys[i]]
                     /\ r.name = uri
                ELSE ~r.ok

\* C11: when the match of (currentAgent, uri) is memoised,
\* MatchPublishedResource(uri) resolves to the memoised server and name and
\* leaves the session as it is; otherwise it resolves to the server of the
\* exact entry for uri in the resource mappings when there is one, otherwise
\* to the first resource-template mapping in sorted key order whose regex
\* matches uri, and fails when there is neither.
C11_MatchFollowsMemoThenMappings ==
    Has(attrs, ConfigSessionKey) =>
        \A uri \in URIs \cup {"u3"}, S \in Reachable(attrs, MatchRefs(attrs)) :
            LET r == MatchPublishedResource(attrs, uri, S)
                key == CurrentAgent(attrs) \o "::" \o uri
                resources == BuildResourceMappings(ResourceRefs(attrs[ConfigSessionKey]), S)
                templates == PublishedResourceTemplateMappings(AddClients(attrs, S), S)
                matching == {i \in DOMAIN SortedTemplateKeys :
                                /\ SortedTemplateKeys[i] \in DOMAIN templates
                                /\ TemplateMatches(SortedTemplateKeys[i], uri)}
            IN  IF key \in DOMAIN MatchCache(attrs)
                THEN /\ r.ok
                     /\ r.server = MatchCache(attrs)[key].m
                     /\ r.name = MatchCache(attrs)[key].t
                     /\ r.attrs = attrs
                ELSE IF uri \in DOMAIN resources
                THEN r.ok /\ r.server = resources[uri] /\ r.name = uri
                ELSE IF matching # {}
                THEN /\ r.ok
                     /\ \E i \in matching :
                          /\ \A j \in matching : i <= j
                          /\ r.server = templates[SortedTemplateKeys[i]]
                     /\ r.name = uri
                ELSE ~r.ok

\* A subscribe resolved u2 while both its templates were in the mapping: the
\* first in sorted order, the one of s2, was taken and memoised.
C11_FirstTemplateTaken ==
    /\ Has(attrs, resourceTemplateMappingKey)
    /\ DOMAIN attrs[resourceTemplateMappingKey] = {"tplA", "tplB"}
    /\ "::u2" \in DOMAIN MatchCache(attrs)
    /\ MatchCache(attrs)["::u2"].m = "s2"
    /\ \E t \in Tasks : call[t].target = "u2" /\ call[t].server = "s2"

(***************************************************************************)
(* Properties of the agent loop.                                           *)
(***************************************************************************)

\* C12: within one completer response the tool calls are invoked one at a
\* time and in the order the completer returned them: at most one call is
\* in flight, every call started before the latest one has its result
\* recorded, and the calls were started in the order of their first
\* occurrence in the response.
C12_ToolCallsOneAtATime ==
    LET FirstAt(c) ==
            CHOOSE i \in 1..Len(run.Response) :
                /\ run.Response[i].ToolCall /\ run.Response[i].CallID = c
                /\ \A j \in 1..(i - 1) :
                      ~(run.Response[j].ToolCall /\ run.Response[j].CallID = c)
    IN  /\ Cardinality(ag.inflight) <= 1
        /\ \A i \in 1..(Len(ag.started) - 1) : IsDone(run, ag.started[i])
        /\ \A i, j \in 1..Len(ag.started) :
              i < j => FirstAt(ag.started[i]) < FirstAt(ag.started[j])

\* The second tool call of a response is being invoked.
C12_SecondCallInvoked ==
    /\ ag.pc = "invoking"
    /\ Len(ag.started) = 2
    /\ IsDone(run, ag.started[1])

C14_TurnsBounded ==
    /\ ag.turn <= MaxTurns
    /\ ag.err = "TurnLimitExceeded" => ag.pc = "failed" /\ ag.turn = MaxTurns
    /\ (ag.pc = "populate" /\ ag.turn = MaxTurns) => ENABLED TurnLimitExceeded

\* A run has used all its turns and failed.
C14_TurnLimitReached ==
    /\ ag.err = "TurnLimitExceeded"
    /\ DOMAIN run.ToolOutputs # {}

\* C15 (as stated): when the originating request is cancelled during the
\* completer call, the turn's response and the run's terminal output are
\* the single assistant message "REQUEST CANCELLED: <reason>", which is
\* also sent as a progress event when a progress token is present.
C15_CancelledOutputIsReason ==
    (ag.cancel.cause = "request" /\ ag.during = "complete")
    => LET text == <<"R", "E", "Q", "U", "E", "S", "T", " ", "C", "A", "N",
                     "C", "E", "L", "L", "E", "D", ":", " ">> \o ag.cancel.reason
       IN  /\ ag.pc \in {"complete", "tools", "finished"}
           /\ ag.pc # "complete" =>
                 /\ run.Response = <<ContentItem(text)>>
                 /\ ag.progress = IF ag.token THEN <<ContentItem(text)>> ELSE <<>>
           /\ ag.pc = "finished" => ag.output.items = <<ContentItem(text)>>

\* C15 (amended): as above, with the whole message in upper case, the
\* reason included: for the reasons "no" and "NO" alike the message is
\* "REQUEST CANCELLED: NO".
C15_CancelledOutputIsUpperCased ==
    (ag.cancel.cause = "request" /\ ag.during = "complete")
    => LET text == <<"R", "E", "Q", "U", "E", "S", "T", " ", "C", "A", "N",
                     "C", "E", "L", "L", "E", "D", ":", " ", "N", "O">>
       IN  /\ ag.cancel.reason \in {<<"n", "o">>, <<"N", "O">>}
           /\ ag.pc \in {"complete", "tools", "finished"}
           /\ ag.pc # "complete" =>
                 /\ run.Response = <<ContentItem(text)>>
                 /\ ag.progress = IF ag.token THEN <<ContentItem(text)>> ELSE <<>>
           /\ ag.pc = "finished" => ag.output.items = <<ContentItem(text)>>

\* A run cancelled with a lower-case reason during its second completer
\* call has finished, and its progress token got the message.
C15_CancelledWhileCompleting ==
    /\ ag.cancel = [cause |-> "request", reason |-> <<"n", "o">>]
    /\ ag.during = "complete"
    /\ ag.turn = 2
    /\ ag.pc = "finished"
    /\ Len(ag.progress) = 1

C17_AutoApprovedWithoutAsking ==
    [][(el.pc = "asked" /\ el'.pc = "answered"
        /\ el.request.Meta = "confirm" /\ el.auto)
       => /\ el'.result.Action = "accept"
          /\ el'.result.Content = [k \in {"answer"} |-> "always"]
          /\ el'.result.err = "nil"
          /\ el'.shown = el.shown]_vars

\* A confirmation was auto-approved after another elicitation had been
\* put to the user.
C17_ConfirmAutoApproved ==
    /\ el.pc = "answered" /\ el.auto
    /\ el.request.Meta = "confirm"
    /\ el.n = 2 /\ el.shown = 1

(***************************************************************************)
(* Properties of truncateToolResult.                                       *)
(***************************************************************************)

C19_PassedThroughUnchanged ==
    (/\ tr.pc = "done" /\ ~tr.msg.nil /\ tr.msg.Items # <<>> /\ tr.msg.Items[1].hasResult
     /\ \/ contentSize(tr.msg.Items[1].Output.Content) <= maxToolResultSize
        \/ \E i \in DOMAIN tr.msg.Items[1].Output.Content :
              tr.msg.Items[1].Output.Content[i].skip)
    => tr.result = tr.msg /\ tr.files = NoFiles

\* A result of exactly maxToolResultSize, without skip-truncation meta, has
\* been through truncateToolResult.
C19_ExactlyAtLimit ==
    /\ tr.pc = "done" /\ ~tr.msg.nil /\ tr.msg.Items # <<>> /\ tr.msg.Items[1].hasResult
    /\ contentSize(tr.msg.Items[1].Output.Content) = maxToolResultSize
    /\ ~hasSkipTruncation(tr.msg.Items[1].Output.Content)
    /\ tr.result = tr.msg

\* C20: the isError flag of a truncated result equals the original's.
C20_IsErrorPreserved ==
    (tr.pc = "done" /\ tr.result # tr.msg)
    => tr.result.Items[1].Output.IsError = tr.msg.Items[1].Output.IsError

\* A large error result has been truncated.
C20_LargeErrorTruncated ==
    /\ tr.pc = "done" /\ tr.result # tr.msg
    /\ tr.msg.Items[1].Output.IsError
    /\ tr.result.Items[1].Output.Content # tr.msg.Items[1].Output.Content

(***************************************************************************)
(* Properties of sanitizePathComponent.                                    *)
(***************************************************************************)
\* C21: sanitizing a sanitized component changes nothing, and a sanitized
\* component is "unnamed" or has between one and the maximal number of
\* characters, each of them a letter, a digit, "_", "." or "-".
C21_SanitizeIdempotentAndBounded ==
    fn.pc = "sanitized" =>
        /\ fn.again = fn.out
        /\ \/ fn.out = <<"u", "n", "n", "a", "m", "e", "d">>
           \/ /\ Len(fn.out) \in 1..maxComponentLen
              /\ \A i \in DOMAIN fn.out : fn.out[i] \in PathChars

\* A component longer than the maximum, which begins with a character to
\* replace followed by a dot, has been sanitized: it was cut.
C21_LongDottedSanitized ==
    /\ fn.pc = "sanitized"
    /\ Len(fn.in) > maxComponentLen
    /\ fn.in[1] = "/" /\ fn.in[2] = "."
    /\ Len(fn.out) = maxComponentLen
    /\ fn.out[1] = "_"

(***************************************************************************)
(* Properties of tool references.                                          *)
(***************************************************************************)
\* C23: the published name of a reference alias:server/tool is the part
\* before the colon, whatever name is passed, and the published name of a
\* reference that is only a server is the name passed.
C23_AliasBeforeColon ==
    fn.pc = "published" =>
        /\ \A x, y, z \in {"a", "s", "t"} :
              fn.in = <<x, ":", y, "/", z>> /\ fn.arg = <<>> => fn.out = <<x>>
        /\ \A y \in {"a", "s", "t"} :
              fn.in = <<y>> /\ fn.arg = <<"x">> => fn.out = <<"x">>


(***************************************************************************)
(* Properties of the timeouts of the system server's tools.                *)
(***************************************************************************)
\* C25: the timeout of a web fetch is 30 s when the caller gives none and
\* is never above 120 s, and the timeout of a bash command is never above
\* 600 s.
C25_TimeoutsCapped ==
    /\ fn.pc = "fetching" =>
          /\ ~fn.in.set => fn.out = 30 * 1000
          /\ fn.out <= 120 * 1000
    /\ fn.pc = "bashing" => fn.out <= 600 * 1000


(***************************************************************************)
(* Properties of the end of the tool-execution step.                       *)
(***************************************************************************)
\* C27: once the tool-execution step for a response has ended, by
\* returning or by failing, run.Done is true exactly when the response
\* holds no tool call.
C27_DoneIffNoToolCalls ==
    (\/ ag.pc = "finished"
     \/ ag.pc = "populate" /\ ag.turn > 0
     \/ ag.pc = "failed" /\ ag.err \in {"ToolNotMapped", "invoke"})
    => (run.Done <=> ~\E i \in DOMAIN run.Response : run.Response[i].ToolCall)

\* The step has returned for a response of two items that are no tool
\* calls, and the run is done.
C27_DoneWithoutToolCalls ==
    /\ ag.pc = "finished"
    /\ Len(run.Response) = 2
    /\ run.Done

\* C28: a pending tool call whose name has no mapping makes toolCalls fail
\* with the mapping error and nothing else; when it has failed so, the
\* call was not dispatched and has no toolOutputs entry.
C28_UnmappedFailsUndispatched ==
    /\ (Pending /\ Item.Name \notin DOMAIN ToolToMCPServer)
       => ENABLED ToolCallsUnmapped /\ ~ENABLED InvokeBegin /\ ~ENABLED ToolCallsSkip
    /\ (ag.pc = "failed" /\ ag.err = "ToolNotMapped")
       => /\ ag.pos \in DOMAIN run.Response
          /\ Item.ToolCall
          /\ Item.Name \notin DOMAIN ToolToMCPServer
          /\ Item.CallID \notin DOMAIN run.ToolOutputs
          /\ \A i \in DOMAIN ag.started : ag.started[i] # Item.CallID
          /\ ag.inflight = {}

\* toolCalls has failed on an unmapped tool after a mapped call was done.
C28_UnmappedAfterMappedCall ==
    /\ ag.pc = "failed" /\ ag.err = "ToolNotMapped"
    /\ ag.pos = 2
    /\ Len(ag.started) = 1
    /\ IsDone(run, ag.started[1])


(***************************************************************************)
(* Properties of the match memo.                                           *)
(***************************************************************************)
\* C29 (as stated): MatchPublishedResource leaves its outcome, a match or a
\* miss, in the memo under (currentAgent, uri), and a second call for the
\* same agent and uri returns the same outcome and leaves the session as
\* it is, whatever upstreams it could reach.
C29_OutcomeMemoised ==
    Has(attrs, ConfigSessionKey) =>
        \A uri \in URIs \cup {"u3"}, S \in Reachable(attrs, MatchRefs(attrs)) :
            LET r == MatchPublishedResource(attrs, uri, S)
            IN  /\ MatchKey(attrs, uri, "") \in DOMAIN MatchCache(r.attrs)
                /\ \A S2 \in Reachable(r.attrs, MatchRefs(r.attrs)) \cup {{}} :
                      LET r2 == MatchPublishedResource(r.attrs, uri, S2)
                      IN  /\ r2.ok = r.ok /\ r2.server = r.server /\ r2.name = r.name
                          /\ r2.attrs = r.attrs

\* C29 (amended): MatchPublishedResource leaves a match in the memo under
\* (currentAgent, uri), and a second call for the same agent and uri then
\* returns the same match and leaves the session as it is, whatever
\* upstreams it could reach; a miss is not memoised.
C29_MatchMemoised ==
    Has(attrs, ConfigSessionKey) =>
        \A uri \in URIs \cup {"u3"}, S \in Reachable(attrs, MatchRefs(attrs)) :
            LET r == MatchPublishedResource(attrs, uri, S)
            IN  IF r.ok
                THEN /\ MatchKey(attrs, uri, "") \in DOMAIN MatchCache(r.attrs)
                     /\ \A S2 \in Reachable(r.attrs, MatchRefs(r.attrs)) \cup {{}} :
                           LET r2 == MatchPublishedResource(r.attrs, uri, S2)
                           IN  /\ r2.ok /\ r2.server = r.server /\ r2.name = r.name
                               /\ r2.attrs = r.attrs
                ELSE MatchKey(attrs, uri, "") \notin DOMAIN MatchCache(r.attrs)

\* u2 was subscribed to and then unsubscribed from: the second match of u2
\* found the memo left by the first.
C29_SecondMatchFromMemo ==
    /\ "::u2" \in DOMAIN MatchCache(attrs)
    /\ \E t \in Tasks :
          /\ pc[t] = "done"
          /\ msg[t].method = "resources/unsubscribe"
          /\ call[t].op = "resources/unsubscribe"
          /\ call[t].target = "u2"
          /\ call[t].server = MatchCache(attrs)["::u2"].m


(***************************************************************************)
(* Properties of the mapping builders.                                     *)
(***************************************************************************)
\* C26: when the client of a ref cannot be obtained while prompt, resource
\* or resource-template mappings are built, the build succeeds all the
\* same and holds what every other ref contributes: each name a reachable
\* ref lists is mapped, and each entry names a reachable ref listing it.
C26_UnreachableRefSkipped ==
    fn.pc = "built" =>
        LET Partial(m, offers(_)) ==
                /\ \A i \in DOMAIN fn.in :
                      fn.in[i] \in fn.arg => offers(fn.in[i]) \subseteq DOMAIN m
                /\ \A n \in DOMAIN m : m[n] \in fn.arg /\ n \in offers(m[n])
        IN  /\ fn.out.prompts.err = "nil"
            /\ Partial(fn.out.prompts.mappings, UpstreamPrompts)
            /\ Partial(fn.out.resources, UpstreamResources)
            /\ Partial(fn.out.templates, UpstreamTemplates)


(***************************************************************************)
(* Properties of the audit log collector.                                  *)
(***************************************************************************)
\* C24: a call of Close returns, and when it has returned the loop has
\* stopped after a run of persistAuditLogs that began after Close was
\* called and leaves no collected entry behind in the buffer unsent.
C24_CloseReturnsAfterFinalFlush ==
    /\ (col.close = "waiting") ~> (col.close = "returned")
    /\ [](col.close = "returned" => col.loop = "stopped" /\ col.finalFlush)

C22_OneSummaryWhenOverThreshold ==
    (/\ cp.pc = "complete"
     /\ estimateTokens(cp.input) * 1000 > compactionThreshold * cp.window)
    => Len(SelectSeq(cp.populated, IsCompactionSummary)) = 1

\* A history that held two earlier summaries was compacted under the
\* default window, and the new input follows the summary.
C22_RecompactedWithNewInput ==
    /\ cp.pc = "complete" /\ cp.compacted
    /\ cp.window = defaultContextWindow
    /\ Len(SelectSeq(cp.archived, IsCompactionSummary)) = 2
    /\ Len(cp.populated) = 2


\* C31: the buffer never holds more entries than the capacity it was made
\* with, twice the batch size.
C31_BufferBounded == Len(col.buffer) <= 2 * batchSize

\* C32: as long as Close is not called the loop keeps flushing: every
\* entry accepted is eventually in the sink, unless Close is called.
C32_AcceptedEventuallySent ==
    \A e \in 1..MaxEntries :
        [](((\E i \in DOMAIN col.accepted : col.accepted[i] = e)
            => <>(\/ \E i \in DOMAIN col.sink : col.sink[i] = e
                  \/ col.close # "idle")))


(***************************************************************************)
(* C33..C34: prompts/list and SetCurrentAgent                              *)
(***************************************************************************)
\* C33: handling prompts/list changes neither the selected current agent
\* nor the cached tool mapping.
C33_ListPromptsOnlyReads ==
    [][\A t \in Tasks :
        handleListPrompts(t) =>
            /\ Has(attrs', CurrentAgentSessionKey) = Has(attrs, CurrentAgentSessionKey)
            /\ CurrentAgent(attrs') = CurrentAgent(attrs)
            /\ Has(attrs', toolMappingKey) = Has(attrs, toolMappingKey)
            /\ Has(attrs, toolMappingKey) =>
                   attrs'[toolMappingKey] = attrs[toolMappingKey]]_vars

\* C34: SetCurrentAgent with a name that is no entrypoint returns an error
\* and leaves the selected agent and every mapping cache as they were.
C34_UnknownAgentChangesNothing ==
    [][\A newAgent \in AgentNames :
        (/\ SetsCurrentAgent(newAgent)
         /\ newAgent # ""
         /\ newAgent \notin getEntrypoints(attrs)) =>
            /\ SetCurrentAgent(attrs, newAgent).err # "nil"
            /\ attrs' = attrs]_vars


(***************************************************************************)
(* C35: the match memo of MatchResource                                    *)
(***************************************************************************)
\* C35: a match memoised by MatchResource is never returned by
\* MatchPublishedResource: what the published surface resolves from the
\* memo is what the published mappings serve.
C35_PrivateMatchStaysPrivate ==
    (fn.pc = "MatchPublishedResource" /\ fn.out.ok /\ fn.out.memo)
        => ServedAs(attrs, fn.in, fn.out)


(***************************************************************************)
(* C36: concurrent resources/subscribe                                     *)
(***************************************************************************)
\* The only two requests of the session so far are resources/subscribe for
\* different uris on tasks t and u, and both were answered with a result.
BothSubscribed(t, u) ==
    /\ nmsgs = 2
    /\ t # u
    /\ msg[t].arg # msg[u].arg
    /\ \A w \in {t, u} :
        /\ pc[w] = "done"
        /\ msg[w].method = "resources/subscribe"
        /\ reply[w].kind = "result"

\* C36 as stated: after two successful subscribes for different uris both
\* uris are in the subscription set.
C36_NoUpdateLost ==
    \A t, u \in Tasks :
        BothSubscribed(t, u) => {msg[t].arg, msg[u].arg} \subseteq Subscriptions(attrs)

\* C36 amended: the set is the one the last handler to store had read, plus
\* its own uri; both uris are in it when one handler read the set after the
\* other had stored it.
C36_LastStoreWins ==
    \A t, u \in Tasks :
        BothSubscribed(t, u) =>
            /\ \E w \in {t, u} :
                Subscriptions(attrs) = loc[w].subs \cup {msg[w].arg}
            /\ (msg[t].arg \in loc[u].subs \/ msg[u].arg \in loc[t].subs)
                   => {msg[t].arg, msg[u].arg} \subseteq Subscriptions(attrs)

\* Both handlers read the empty set before either stored, and both
\* succeeded.
C36_BothReadBeforeEitherStored ==
    \E t, u \in Tasks :
        /\ BothSubscribed(t, u)
        /\ loc[t].subs = {}
        /\ loc[u].subs = {}


(***************************************************************************)
(* C37: the env map after a failed initialize                              *)
(***************************************************************************)
\* Task t's initialize is answered with the missing-environment error in
\* this step.
FailsForMissingEnv(t) ==
    /\ pc[t] = "dispatch"
    /\ msg[t].method = "initialize"
    /\ pc'[t] = "done"
    /\ reply'[t].code = InvalidParamsCode

\* C37 as stated: an initialize that fails for missing environment leaves
\* the env map as it was.
C37_EnvUntouchedOnFailure ==
    [][\A t \in Tasks : FailsForMissingEnv(t) => env' = env]_vars

\* C37 amended: the failed initialize keeps every entry of the env map and
\* writes nothing for a missing variable; it adds each declared variable
\* that is not missing and not in the map, with the bearer token when the
\* variable takes it and a token is there, else with its default.
C37_OnlySatisfiedWritten ==
    [][\A t \in Tasks :
        FailsForMissingEnv(t) =>
            LET c == attrs[ConfigSessionKey]
                bearer == BearerKey \in DOMAIN env /\ env[BearerKey] # ""
            IN  /\ \A k \in DOMAIN env : k \in DOMAIN env' /\ env'[k] = env[k]
                /\ \A k \in DOMAIN env' \ DOMAIN env :
                    /\ k \in DOMAIN c.Env
                    /\ k \notin reply'[t].missing
                    /\ env'[k] = IF c.Env[k].UseBearerToken /\ bearer
                                 THEN env[BearerKey]
                                 ELSE c.Env[k].Default
                /\ \A k \in DOMAIN c.Env \ reply'[t].missing : k \in DOMAIN env']_vars

\* An initialize failed for K1, and the env map has received the bearer
\* token for K2 and the default of K3.
C37_WrittenAlthoughFailed ==
    \E t \in Tasks :
        /\ pc[t] = "done"
        /\ msg[t].method = "initialize"
        /\ reply[t].code = InvalidParamsCode
        /\ reply[t].missing = {"K1"}
        /\ "K1" \notin DOMAIN env
        /\ "K2" \in DOMAIN env /\ env["K2"] = env[BearerKey]
        /\ "K3" \in DOMAIN env /\ env["K3"] = "d"


(***************************************************************************)
(* C38: what truncation leaves alone                                       *)
(***************************************************************************)
\* C38: a truncated result differs from its input in the content list only:
\* the message ID and role, the item ID, the call ID, the other fields of
\* the output and the output role are those of the input.
C38_OnlyContentChanges ==
    (tr.pc = "done" /\ tr.result # tr.msg)
    => /\ tr.result.ID = tr.msg.ID
       /\ tr.result.Role = tr.msg.Role
       /\ Len(tr.result.Items) = 1
       /\ tr.result.Items[1].ID = tr.msg.Items[1].ID
       /\ tr.result.Items[1].CallID = tr.msg.Items[1].CallID
       /\ tr.result.Items[1].Output.Agent = tr.msg.Items[1].Output.Agent
       /\ tr.result.Items[1].Output.IsError = tr.msg.Items[1].Output.IsError
       /\ tr.result.Items[1].OutputRole = tr.msg.Items[1].OutputRole


(***************************************************************************)
(* C39: the meta server's tools                                            *)
(***************************************************************************)
\* C39: the initialize of a session that is no UI session leaves the tools
\* that the meta server lists and runs for the other sessions as they were.
C39_OtherSessionsKeepTools ==
    [][\A c \in MetaSessions, o \in MetaSessions :
        (initialize(c) /\ ~ms.ui[c] /\ o # c)
            => ToolsServed(ms', o) = ToolsServed(ms, o)]_vars


(***************************************************************************)
(* C40: the tools the system config hook adds                              *)
(***************************************************************************)
\* perm is allowed by the rules: the last rule that names it or * says
\* allow, or no rule names it.
LastRuleAllows(rules, perm) ==
    \A i \in DOMAIN rules :
        (/\ rules[i][1] \in {perm, "*"}
         /\ \A j \in DOMAIN rules : rules[j][1] \in {perm, "*"} => j <= i)
        => rules[i][2] = "allow"

\* C40 as stated: nanobot.system/<tool> is added only for allowed
\* permissions, and never for a tool whose own permission is denied.
C40_DeniedToolNeverAdded ==
    fn.pc = "configured" =>
        /\ \A tool \in UNION {allowedPermsToTools[p] : p \in DOMAIN allowedPermsToTools} :
            ("nanobot.system/" \o tool) \in fn.out
                => \E perm \in DOMAIN allowedPermsToTools :
                      /\ tool \in allowedPermsToTools[perm]
                      /\ LastRuleAllows(fn.in, perm)
        /\ \A tool \in DOMAIN allowedPermsToTools :
            ~LastRuleAllows(fn.in, tool) => ("nanobot.system/" \o tool) \notin fn.out

\* C40 amended: nanobot.system/<tool> is added exactly when some allowed
\* permission lists the tool; edit, which the write permission lists too,
\* is added when write is allowed although edit itself is denied.  The
\* agent's own tools stay.
C40_ToolsOfAllowedPermissions ==
    fn.pc = "configured" =>
        /\ \A tool \in UNION {allowedPermsToTools[p] : p \in DOMAIN allowedPermsToTools} :
            ("nanobot.system/" \o tool) \in fn.out
                <=> \E perm \in DOMAIN allowedPermsToTools :
                       /\ tool \in allowedPermsToTools[perm]
                       /\ LastRuleAllows(fn.in, perm)
        /\ (LastRuleAllows(fn.in, "write") /\ ~LastRuleAllows(fn.in, "edit"))
               => "nanobot.system/edit" \in fn.out
        /\ fn.arg \subseteq fn.out

\* Everything is denied, then write is allowed and edit denied: the hook
\* has added write and edit and nothing else.
C40_EditAddedThroughWrite ==
    /\ fn.pc = "configured"
    /\ fn.in = << <<"*", "deny">>, <<"write", "allow">>, <<"edit", "deny">> >>
    /\ fn.arg = {}
    /\ fn.out = {"nanobot.system/write", "nanobot.system/edit"}

====
